---- MODULE Spec2Model ----
(***************************************************************************)
(* Aegis-Scan: the scan orchestrator (backend/app/orchestrator.py), the    *)
(* agents it runs, the tool launcher, the parsers and the database store,  *)
(* as a state machine.  One action per await-delimited block of            *)
(* Orchestrator._run_scan; pure code (parsers, agents' run bodies, the     *)
(* store's save/load conversion) as operators.                             *)
(*                                                                         *)
(* Python None and the empty string are both falsy and are both written    *)
(* "" here; a timestamp is modelled by whether it is set.  Voice narration *)
(* is off (Settings.elevenlabs_api_key defaults to None).  The environment *)
(* faults of the model are the ones of external collaborators: the exit    *)
(* code, timeout and output of a tool process, a failing git clone, an     *)
(* absent or failing LLM.                                                  *)
(***************************************************************************)
EXTENDS Integers, Sequences, FiniteSets, TLC

VARIABLES
    llm_client,      \* Orchestrator._llm_client: "absent", "ok" or "raises"
    enabled_agents,  \* Settings.enabled_agents
    scans,           \* Orchestrator._scans: scan id -> ScanStatus
    tasks,           \* Orchestrator._tasks: scan id -> the run task's state
    requests,        \* scan id -> the ScanRequest its task was created with
    workspaces,      \* Orchestrator._workspaces: scan id -> workspace path
    db,              \* the database: scan id -> stored rows
    fs,              \* the paths that exist on the filesystem
    published,       \* scan id -> last snapshot handed to the websocket manager
    runs,            \* scan id -> the agent.run(ctx) calls made, in order: slot,
                     \* agent, context seen, tool process, output, findings appended
    waits,           \* scan id -> outcome of wait_for_completion
    rejected,        \* whether the last call of start_scan raised ValueError
    faults,          \* number of non-nominal tool results drawn so far
    connections,     \* WebsocketManager._connections: scan id -> websockets
    closed,          \* the websockets whose disconnect call has returned
    broadcasts       \* the WebsocketManager.broadcast calls made, in order

vars == <<llm_client, enabled_agents, scans, tasks, requests, workspaces, db,
          fs, published, runs, waits, rejected, faults, connections, closed,
          broadcasts>>

-----------------------------------------------------------------------------
(* Bounds *)

\* at most this many tool invocations of a run get a non-nominal process result
MaxFaults == 1

-----------------------------------------------------------------------------
(* schemas.py *)

STATIC == "static"
DEPENDENCY == "dependency"
SECRET == "secret"
FUZZER == "fuzzer"
DAST == "dast"
TEMPLATE == "template"
ADAPTIVE == "adaptive"
THREAT == "threat"
REPORT == "report"

AgentName == {STATIC, DEPENDENCY, SECRET, FUZZER, DAST, TEMPLATE, ADAPTIVE, THREAT, REPORT}

PENDING == "pending"
RUNNING == "running"
COMPLETED == "completed"
FAILED == "failed"
SKIPPED == "skipped"

AgentStatus == {PENDING, RUNNING, COMPLETED, FAILED, SKIPPED}

CRITICAL == "critical"
HIGH == "high"
MEDIUM == "medium"
LOW == "low"
INFO == "informational"

FindingSeverity == {CRITICAL, HIGH, MEDIUM, LOW, INFO}

\* AgentProgress(agent=name): status PENDING, no timestamps, 0 percent, no message
AgentProgress(name) ==
    [agent |-> name, status |-> PENDING, started_at |-> FALSE, ended_at |-> FALSE,
     percent_complete |-> 0, message |-> ""]

Finding(id, title, severity, source_agent, metadata) ==
    [id |-> id, title |-> title, severity |-> severity,
     source_agent |-> source_agent, metadata |-> metadata]

AgentThought(agent, thought, action_plan) ==
    [agent |-> agent, thought |-> thought, action_plan |-> action_plan]

-----------------------------------------------------------------------------
(* helpers *)

EmptyMap == [k \in {} |-> k]

Put(m, k, v) == [x \in DOMAIN m \cup {k} |-> IF x = k THEN v ELSE m[x]]

Remove(m, k) == [x \in DOMAIN m \ {k} |-> m[x]]

Range(s) == {s[i] : i \in DOMAIN s}

\* Python truthiness of an Optional[str]
Truthy(x) == x # ""

\* [x for x in s if Keep(x)]
RECURSIVE Filter(_, _)
Filter(s, keep) ==
    IF s = <<>> THEN <<>>
    ELSE (IF Head(s) \in keep THEN <<Head(s)>> ELSE <<>>) \o Filter(Tail(s), keep)

\* str.startswith("http")
StartsWithHttp(t) == Len(t) >= Len("http") /\ SubSeq(t, 1, Len("http")) = "http"

-----------------------------------------------------------------------------
(* config.py *)

DefaultEnabledAgents ==
    <<STATIC, DEPENDENCY, SECRET, FUZZER, DAST, TEMPLATE, ADAPTIVE, THREAT, REPORT>>

-----------------------------------------------------------------------------
(* The inputs of start_scan *)

ScanIds == {"s1"}

GithubUrls == {"", "https://github.com/o/r"}
TargetUrls == {"", "http://app.test"}
LegacyTargets == {"", "/srv/app", "http://legacy.test", "httpdocs"}

\* request.enabled_agents; None and [] are both falsy and both written <<>>
ExplicitAgentLists ==
    { <<>>,
      <<STATIC, STATIC>>,
      <<REPORT, DEPENDENCY, THREAT>>,
      <<"bogus", SECRET, TEMPLATE>> }

ScanRequests ==
    [github_url : GithubUrls, target_url : TargetUrls, target : LegacyTargets,
     enabled_agents : ExplicitAgentLists]

\* paths that exist before any scan: the legacy local target
InitialPaths == {"/srv/app"}

-----------------------------------------------------------------------------
(* orchestrator.py: request handling *)

\* Orchestrator._agent_factories: the agent identities that have an implementation
AgentFactories == AgentName

\* a validation that lets every request through
ValidateRequestLax(request) == TRUE

\* Orchestrator._validate_request: TRUE when no ValueError is raised
ValidateRequest(request) ==
    Truthy(request.github_url) \/ Truthy(request.target_url) \/ Truthy(request.target)

\* Orchestrator._determine_target_display
DetermineTargetDisplay(request) ==
    IF Truthy(request.github_url) THEN request.github_url
    ELSE IF Truthy(request.target_url) THEN request.target_url
    ELSE IF Truthy(request.target) THEN request.target
    ELSE "unknown"

\* every family for every request
DetermineEnabledAgentsAll(request, settings_enabled) ==
    IF request.enabled_agents # <<>>
    THEN Filter(request.enabled_agents, Range(settings_enabled))
    ELSE <<STATIC, DEPENDENCY, SECRET, DAST, FUZZER, TEMPLATE, ADAPTIVE, THREAT, REPORT>>

\* Orchestrator._determine_enabled_agents
DetermineEnabledAgents(request, settings_enabled) ==
    LET static_agents == <<STATIC, DEPENDENCY, SECRET>>
        dynamic_agents == <<DAST, FUZZER, TEMPLATE>>
        meta_agents == <<ADAPTIVE, THREAT, REPORT>>
        derived ==
            (IF Truthy(request.github_url) \/ Truthy(request.target)
                THEN static_agents ELSE <<>>)
            \o (IF Truthy(request.target_url) \/ Truthy(request.target)
                THEN dynamic_agents ELSE <<>>)
            \o meta_agents
    IN  IF request.enabled_agents # <<>>
        THEN Filter(request.enabled_agents, Range(settings_enabled))
        ELSE derived

\* Orchestrator._create_progress over the given settings.enabled_agents
CreateProgress(settings_enabled) ==
    LET named == Filter(settings_enabled, AgentFactories)
    IN  [i \in 1..Len(named) |-> AgentProgress(named[i])]

-----------------------------------------------------------------------------
(* services/database_store.py, database.py *)

\* the primary key DatabaseStore.save gives a finding's row
FindingRowId(scan_id, finding_id) == scan_id \o "_" \o finding_id

\* the FindingDB rows save builds from status.findings
FindingRows(status) ==
    [i \in 1..Len(status.findings) |->
        [id |-> FindingRowId(status.scan_id, status.findings[i].id),
         scan_id |-> status.scan_id,
         title |-> status.findings[i].title,
         severity |-> status.findings[i].severity,
         source_agent |-> status.findings[i].source_agent,
         finding_metadata |-> status.findings[i].metadata]]

\* the rows one save writes for a scan: the ScanDB row and its child rows
ScanRows(status) ==
    [scan_id |-> status.scan_id,
     target |-> status.target,
     github_url |-> status.github_url,
     target_url |-> status.target_url,
     workspace_path |-> status.workspace_path,
     findings |-> FindingRows(status),
     progress |-> status.progress,
     thoughts |-> status.thoughts,
     logs |-> status.logs]

\* FindingDB.id is the table's primary key: the commit fails when two rows of the
\* flush carry the same id, or a row's id is the id of another scan's row
PrimaryKeyConflict(store, status) ==
    LET rows == FindingRows(status)
    IN  \/ \E i, j \in DOMAIN rows : i < j /\ rows[i].id = rows[j].id
        \/ \E i \in DOMAIN rows : \E other \in DOMAIN store \ {status.scan_id} :
               \E k \in DOMAIN store[other].findings :
                   store[other].findings[k].id = rows[i].id

\* DatabaseStore.save: the scan's former child rows are deleted and replaced;
\* nothing is written when the commit raises
Save(store, status) ==
    IF PrimaryKeyConflict(store, status)
    THEN [raised |-> TRUE, db |-> store]
    ELSE [raised |-> FALSE, db |-> Put(store, status.scan_id, ScanRows(status))]

\* DatabaseStore._convert_to_scan_status: Finding(id=finding_db.id, ...)
ConvertToScanStatus(scan_db) ==
    [scan_id |-> scan_db.scan_id,
     target |-> scan_db.target,
     github_url |-> scan_db.github_url,
     target_url |-> scan_db.target_url,
     workspace_path |-> scan_db.workspace_path,
     progress |-> scan_db.progress,
     findings |-> [i \in DOMAIN scan_db.findings |->
                     Finding(scan_db.findings[i].id,
                             scan_db.findings[i].title,
                             scan_db.findings[i].severity,
                             scan_db.findings[i].source_agent,
                             scan_db.findings[i].finding_metadata)],
     logs |-> scan_db.logs,
     thoughts |-> scan_db.thoughts]

\* DatabaseStore.load: <<>> for None, else <<ScanStatus>>
Load(store, scan_id) ==
    IF scan_id \in DOMAIN store THEN <<ConvertToScanStatus(store[scan_id])>> ELSE <<>>

-----------------------------------------------------------------------------
(* services/tool_launcher.py *)

\* the binaries of Settings: semgrep_bin, trivy_bin, gitleaks_bin, ffuf_bin,
\* zap_baseline_bin, nuclei_bin
SemgrepBin == "semgrep"
TrivyBin == "trivy"
GitleaksBin == "gitleaks"
FfufBin == "ffuf"
ZapBaselineBin == "zap-baseline.py"
NucleiBin == "nuclei"

\* one result in a tool's native output; each tool names its results from its own
\* namespace (trivy's VulnerabilityID, ZAP's pluginid, nuclei's template-id)
NativeResult(command, label) ==
    [id |-> CASE command = TrivyBin -> "CVE-2024-0001"
              [] command = ZapBaselineBin -> "10021"
              [] command = NucleiBin -> "tech-detect"
              [] OTHER -> "",
     title |-> "Issue", severity |-> label]

\* what a tool prints: nothing, text that is not JSON, or JSON listing results
\* that carry a native severity label
NoOutput == [text |-> "empty", count |-> 0, label |-> ""]
Garbage == [text |-> "garbage", count |-> 0, label |-> ""]
JsonOne == [text |-> "json", count |-> 1, label |-> "HIGH"]
JsonTwo == [text |-> "json", count |-> 2, label |-> "HIGH"]
JsonNone == [text |-> "json", count |-> 0, label |-> ""]
\* one result whose severity label is on no tool's scale
JsonUnknown == [text |-> "json", count |-> 1, label |-> "unknown"]

\* the text the command prints
Stdout(command, out) ==
    [text |-> out.text,
     results |-> [i \in 1..out.count |-> NativeResult(command, out.label)]]

\* the nominal run of a tool: exit code 0 and one result
NominalProcess == [timed_out |-> FALSE, returncode |-> 0, out |-> JsonOne, err |-> ""]

\* the other runs: two results, no result, empty or malformed output, exit code 1
\* with and without JSON, another non-zero exit code, a timeout (the killed
\* process reports the signal as its return code)
FaultyProcesses ==
    { [timed_out |-> FALSE, returncode |-> 0, out |-> JsonTwo, err |-> ""],
      [timed_out |-> FALSE, returncode |-> 0, out |-> JsonNone, err |-> ""],
      [timed_out |-> FALSE, returncode |-> 0, out |-> NoOutput, err |-> ""],
      [timed_out |-> FALSE, returncode |-> 0, out |-> Garbage, err |-> ""],
      [timed_out |-> FALSE, returncode |-> 0, out |-> JsonUnknown, err |-> ""],
      [timed_out |-> FALSE, returncode |-> 1, out |-> JsonOne, err |-> "tool error"],
      [timed_out |-> FALSE, returncode |-> 1, out |-> Garbage, err |-> "tool error"],
      [timed_out |-> FALSE, returncode |-> 2, out |-> JsonOne, err |-> "tool error"],
      [timed_out |-> TRUE, returncode |-> -9, out |-> NoOutput, err |-> "tool error"] }

Processes == {NominalProcess} \cup FaultyProcesses

\* ToolExecutionError.__init__: "Command failed (<exit code>): <command>"
ToolExecutionErrorText(result) == "Command failed (" \o ToString(result.exit_code) \o ")"

\* a launcher that hands back the result whatever the exit code and the timeout
ToolLauncherRunUnchecked(command, process) ==
    [raised |-> FALSE,
     result |-> [command |-> command,
                 stdout |-> Stdout(command, process.out),
                 stderr |-> process.err,
                 exit_code |-> process.returncode]]

\* ToolLauncher.run: the result, and whether it is raised inside ToolExecutionError
ToolLauncherRun(command, process) ==
    IF process.timed_out
    THEN [raised |-> TRUE,
          result |-> [command |-> command,
                      stdout |-> Stdout(command, process.out),
                      stderr |-> process.err,
                      exit_code |-> IF process.returncode # 0
                                    THEN process.returncode ELSE -1]]
    ELSE LET result == [command |-> command,
                        stdout |-> Stdout(command, process.out),
                        stderr |-> process.err,
                        exit_code |-> process.returncode]
         IN  [raised |-> result.exit_code # 0, result |-> result]

-----------------------------------------------------------------------------
(* parsers/*.py: each returns the findings, or raises *)

Parsed(findings) == [raised |-> FALSE, text |-> "", findings |-> findings]
Raised(text) == [raised |-> TRUE, text |-> text, findings |-> <<>>]

\* str.upper() on a native severity label
Upper(label) ==
    CASE label = "critical" -> "CRITICAL"
      [] label = "high" -> "HIGH"
      [] label = "medium" -> "MEDIUM"
      [] label = "low" -> "LOW"
      [] label = "info" -> "INFO"
      [] label = "unknown" -> "UNKNOWN"
      [] OTHER -> label

\* str.lower() on a title or label
Lower(text) ==
    CASE text = "Issue" -> "issue"
      [] text = "HIGH" -> "high"
      [] text = "MEDIUM" -> "medium"
      [] text = "LOW" -> "low"
      [] text = "CRITICAL" -> "critical"
      [] OTHER -> text

ToolMetadata == [kind |-> "tool"]

\* semgrep_parser.SEVERITY_MAP.get(raw_severity, FindingSeverity.LOW)
SemgrepSeverity(raw_severity) ==
    CASE raw_severity = "CRITICAL" -> CRITICAL
      [] raw_severity = "HIGH" -> HIGH
      [] raw_severity = "MEDIUM" -> MEDIUM
      [] raw_severity = "LOW" -> LOW
      [] raw_severity = "INFO" -> INFO
      [] raw_severity = "INFORMATIONAL" -> INFO
      [] raw_severity = "ERROR" -> HIGH
      [] raw_severity = "WARNING" -> MEDIUM
      [] OTHER -> LOW

\* parse_semgrep_output
ParseSemgrepOutput(results) ==
    Parsed([idx \in DOMAIN results |->
        Finding("semgrep-" \o ToString(idx), results[idx].title,
                SemgrepSeverity(Upper(results[idx].severity)), STATIC, ToolMetadata)])

\* trivy_parser.SEVERITY_MAP.get(vuln.get("Severity", "LOW"), FindingSeverity.LOW)
TrivySeverity(label) ==
    CASE label = "CRITICAL" -> CRITICAL
      [] label = "HIGH" -> HIGH
      [] label = "MEDIUM" -> MEDIUM
      [] label = "LOW" -> LOW
      [] OTHER -> LOW

\* parse_trivy_output: the finding's id is the tool's VulnerabilityID
ParseTrivyOutput(results) ==
    Parsed([idx \in DOMAIN results |->
        Finding(results[idx].id, results[idx].title,
                TrivySeverity(results[idx].severity), DEPENDENCY, ToolMetadata)])

\* parse_gitleaks_output
ParseGitleaksOutput(results) ==
    Parsed([idx \in DOMAIN results |->
        Finding("gitleaks-" \o ToString(idx), results[idx].title,
                CRITICAL, SECRET, ToolMetadata)])

\* parse_ffuf_output: no finding for blank output or output with no JSON line
ParseFfufOutput(raw) ==
    IF raw.text # "json" THEN Parsed(<<>>)
    ELSE Parsed([idx \in DOMAIN raw.results |->
            Finding("ffuf-" \o ToString(idx), "Discovered path: /" \o ToString(idx),
                    MEDIUM, FUZZER, ToolMetadata)])

\* FindingSeverity[name]: the lookup by member name raises KeyError for other names
SeverityByName(name) ==
    CASE name = "CRITICAL" -> <<CRITICAL>>
      [] name = "HIGH" -> <<HIGH>>
      [] name = "MEDIUM" -> <<MEDIUM>>
      [] name = "LOW" -> <<LOW>>
      [] name = "INFO" -> <<INFO>>
      [] OTHER -> <<>>

\* parse_nuclei_output: lines that are not JSON are skipped; the finding's id is
\* the template id
ParseNucleiOutput(raw) ==
    LET entries == IF raw.text = "json" THEN raw.results ELSE <<>>
    IN  IF \E idx \in DOMAIN entries : SeverityByName(Upper(entries[idx].severity)) = <<>>
        THEN Raised("KeyError")
        ELSE Parsed([idx \in DOMAIN entries |->
                Finding(entries[idx].id, entries[idx].title,
                        SeverityByName(Upper(entries[idx].severity))[1],
                        TEMPLATE, ToolMetadata)])

\* zap_parser.SEVERITY_MAP.get(str(risk).lower(), FindingSeverity.MEDIUM)
ZapSeverity(risk) ==
    CASE risk = "high" -> HIGH
      [] risk = "medium" -> MEDIUM
      [] risk = "low" -> LOW
      [] risk = "informational" -> INFO
      [] OTHER -> MEDIUM

\* parse_zap_output: the finding's id is the alert's plugin id
ParseZapOutput(results) ==
    Parsed([idx \in DOMAIN results |->
        Finding(results[idx].id, results[idx].title,
                ZapSeverity(Lower(results[idx].severity)), DAST, ToolMetadata)])

\* json.loads of a tool's text: the results, or JSONDecodeError
JsonLoads(out) ==
    IF out.text = "json" THEN Parsed(out.results) ELSE Raised("JSONDecodeError")

-----------------------------------------------------------------------------
(* agents/*.py: what agent.run(ctx) produces.  A tool agent is a coroutine that
   returns a list or raises; a meta-agent is an async generator. *)

\* what an agent hands to the orchestrator
ThoughtItem(thought) == [kind |-> "thought", value |-> thought]
FindingItem(finding) == [kind |-> "finding", value |-> finding]

FindingItems(findings) == [i \in DOMAIN findings |-> FindingItem(findings[i])]

Returns(findings) == [shape |-> "coroutine", items |-> FindingItems(findings), exc |-> ""]
Raises(text) == [shape |-> "coroutine", items |-> <<>>, exc |-> text]
Yields(items) == [shape |-> "generator", items |-> items, exc |-> ""]

\* a parser's outcome as the outcome of the agent that returns it
OfParser(parsed) == IF parsed.raised THEN Raises(parsed.text) ELSE Returns(parsed.findings)

\* Path(target).exists(); Path("") is the current directory
PathExists(fsys, target) == target = "" \/ target \in fsys

\* Settings.ffuf_wordlist
FfufWordlist == "/usr/share/wordlists/dirb/common.txt"

\* StaticAgent.run
StaticAgentRun(ctx, fsys, process) ==
    IF ~PathExists(fsys, ctx.target)
    THEN Raises("Static analysis target does not exist: " \o ctx.target)
    ELSE LET launched == ToolLauncherRun(SemgrepBin, process)
         IN  IF launched.raised THEN Raises(ToolExecutionErrorText(launched.result))
             ELSE LET payload == JsonLoads(launched.result.stdout)
                  IN  IF payload.raised THEN Raises(payload.text)
                      ELSE OfParser(ParseSemgrepOutput(payload.findings))

\* DependencyAgent.run
DependencyAgentRun(ctx, fsys, process) ==
    IF ~PathExists(fsys, ctx.target)
    THEN Raises("Dependency scan target does not exist: " \o ctx.target)
    ELSE LET launched == ToolLauncherRun(TrivyBin, process)
         IN  IF launched.raised THEN Raises(ToolExecutionErrorText(launched.result))
             ELSE LET payload == JsonLoads(launched.result.stdout)
                  IN  IF payload.raised THEN Raises(payload.text)
                      ELSE OfParser(ParseTrivyOutput(payload.findings))

\* json.loads(stdout or "[]")
JsonLoadsOrEmptyList(out) == IF out.text = "empty" THEN Parsed(<<>>) ELSE JsonLoads(out)

\* a secret agent for which every non-zero exit code is an error
SecretAgentRunStrict(ctx, fsys, process) ==
    IF ~PathExists(fsys, ctx.target)
    THEN Raises("Secret scan target does not exist: " \o ctx.target)
    ELSE LET launched == ToolLauncherRun(GitleaksBin, process)
             payload == JsonLoadsOrEmptyList(launched.result.stdout)
         IN  IF launched.raised
             THEN Raises(ToolExecutionErrorText(launched.result))
             ELSE IF payload.raised THEN Raises(payload.text)
                  ELSE OfParser(ParseGitleaksOutput(payload.findings))

\* SecretAgent.run: exit code 1 means that secrets were found
SecretAgentRun(ctx, fsys, process) ==
    IF ~PathExists(fsys, ctx.target)
    THEN Raises("Secret scan target does not exist: " \o ctx.target)
    ELSE LET launched == ToolLauncherRun(GitleaksBin, process)
             payload == JsonLoadsOrEmptyList(launched.result.stdout)
         IN  IF launched.raised /\ launched.result.exit_code # 1
             THEN Raises(ToolExecutionErrorText(launched.result))
             ELSE IF payload.raised THEN Raises(payload.text)
                  ELSE OfParser(ParseGitleaksOutput(payload.findings))

\* FuzzerAgent.run
FuzzerAgentRun(ctx, fsys, process) ==
    IF ~StartsWithHttp(ctx.target)
    THEN Raises("Fuzzer agent requires an HTTP/HTTPS target URL")
    ELSE IF FfufWordlist \notin fsys
    THEN Raises("ffuf wordlist not found: " \o FfufWordlist)
    ELSE LET launched == ToolLauncherRun(FfufBin, process)
         IN  IF launched.raised THEN Raises(ToolExecutionErrorText(launched.result))
             ELSE OfParser(ParseFfufOutput(launched.result.stdout))

\* DASTAgent.run: the payload is the report file the tool writes
DASTAgentRun(ctx, fsys, process) ==
    IF ~StartsWithHttp(ctx.target)
    THEN Raises("DAST agent requires an HTTP/HTTPS target URL")
    ELSE LET launched == ToolLauncherRun(ZapBaselineBin, process)
         IN  IF launched.raised THEN Raises(ToolExecutionErrorText(launched.result))
             ELSE LET payload == JsonLoads(launched.result.stdout)
                  IN  IF payload.raised THEN Raises(payload.text)
                      ELSE OfParser(ParseZapOutput(payload.findings))

\* TemplateAgent.run
TemplateAgentRun(ctx, fsys, process) ==
    IF ~StartsWithHttp(ctx.target)
    THEN Raises("Template agent requires an HTTP/HTTPS target URL")
    ELSE LET launched == ToolLauncherRun(NucleiBin, process)
         IN  IF launched.raised THEN Raises(ToolExecutionErrorText(launched.result))
             ELSE OfParser(ParseNucleiOutput(launched.result.stdout))

\* a client that raises in every call once its call from the think step raises
LLMGenerateSticky(client) ==
    IF client = "ok" THEN [raised |-> FALSE, text |-> "llm response"]
    ELSE [raised |-> TRUE, text |-> "LLM error"]

\* LLMClient.generate: the text, or LLMError.  The client "think_raises" raises
\* in the call the think step makes and answers every other call.
LLMGenerate(client) ==
    IF client \in {"ok", "think_raises"} THEN [raised |-> FALSE, text |-> "llm response"]
    ELSE [raised |-> TRUE, text |-> "LLM error"]

\* the client as the call of the think step meets it
ThinkClient(client) == IF client = "think_raises" THEN "raises" ELSE client

\* ReActMixin.think
Think(agent, ctx, objective) ==
    IF ctx.llm_client = "absent"
    THEN AgentThought(agent, "LLM not available - proceeding with standard execution",
                      objective)
    ELSE LET generated == LLMGenerate(ThinkClient(ctx.llm_client))
         IN  IF generated.raised
             THEN AgentThought(agent, "Thought generation failed: " \o generated.text,
                               objective)
             ELSE AgentThought(agent, generated.text, objective)

\* AdaptiveAgent._analyze_findings: the summary of the analysis
AnalyzeFindings(ctx) ==
    IF ctx.previous_findings = <<>>
    THEN "No findings from previous agents to analyze."
    ELSE LET generated == LLMGenerate(ctx.llm_client)
         IN  IF generated.raised
             THEN "Analysis generation failed: " \o generated.text
             ELSE generated.text

\* an adaptive agent that gives up without a working LLM
AdaptiveAgentRunStrict(ctx) ==
    IF ctx.llm_client # "ok" THEN Raises("LLM client not available")
    ELSE Yields(<<ThoughtItem(Think(ADAPTIVE, ctx,
                     "Analyze scan results and provide adaptive security recommendations")),
             FindingItem(Finding(ctx.scan_id \o "-adaptive-analysis",
                 "Adaptive Security Analysis", INFO, ADAPTIVE,
                 [total_findings_analyzed |-> Len(ctx.previous_findings),
                  description |-> AnalyzeFindings(ctx)]))>>)

\* AdaptiveAgent.run
AdaptiveAgentRun(ctx) ==
    LET thought == Think(ADAPTIVE, ctx,
            "Analyze scan results and provide adaptive security recommendations")
        total == Len(ctx.previous_findings)
    IN  IF ctx.llm_client = "absent"
        THEN Yields(<<ThoughtItem(thought),
                 FindingItem(Finding(ctx.scan_id \o "-adaptive-basic",
                     "Basic Scan Summary", INFO, ADAPTIVE,
                     [total_findings |-> total, llm_available |-> FALSE]))>>)
        ELSE Yields(<<ThoughtItem(thought),
                 FindingItem(Finding(ctx.scan_id \o "-adaptive-analysis",
                     "Adaptive Security Analysis", INFO, ADAPTIVE,
                     [total_findings_analyzed |-> total,
                      description |-> AnalyzeFindings(ctx)]))>>)

\* ThreatAgent._deduplicate_findings: the first finding of each
\* (title.lower(), source_agent)
RECURSIVE DeduplicateFindings(_)
DeduplicateFindings(findings) ==
    IF findings = <<>> THEN <<>>
    ELSE LET front == SubSeq(findings, 1, Len(findings) - 1)
             last == findings[Len(findings)]
             unique == DeduplicateFindings(front)
         IN  IF \E i \in DOMAIN front :
                    /\ Lower(front[i].title) = Lower(last.title)
                    /\ front[i].source_agent = last.source_agent
             THEN unique
             ELSE Append(unique, last)

\* [f for f in findings if f.severity in [CRITICAL, HIGH]]
RECURSIVE CriticalHigh(_)
CriticalHigh(findings) ==
    IF findings = <<>> THEN <<>>
    ELSE (IF Head(findings).severity \in {CRITICAL, HIGH} THEN <<Head(findings)>> ELSE <<>>)
         \o CriticalHigh(Tail(findings))

\* ThreatAgent._generate_threat_insights: the remediation order, "" for {}
GenerateThreatInsights(ctx) ==
    LET generated == LLMGenerate(ctx.llm_client)
    IN  IF generated.raised THEN "" ELSE generated.text

DefaultRemediation == "Address Critical and High severity issues first, then Medium and Low."

\* ThreatAgent.run
ThreatAgentRun(ctx) ==
    LET thought == Think(THREAT, ctx,
            "Prioritize security threats and identify attack vectors")
        deduplicated == DeduplicateFindings(ctx.previous_findings)
        duplicates_removed == Len(ctx.previous_findings) - Len(deduplicated)
        critical_high == CriticalHigh(ctx.previous_findings)
        insights == IF ctx.llm_client # "absent" /\ critical_high # <<>>
                    THEN GenerateThreatInsights(ctx) ELSE ""
    IN  IF ctx.previous_findings = <<>>
        THEN Yields(<<ThoughtItem(thought),
                 FindingItem(Finding(ctx.scan_id \o "-threat-none",
                     "No Threats Identified", INFO, THREAT,
                     [total_findings |-> 0]))>>)
        ELSE Yields(<<ThoughtItem(thought),
                 FindingItem(Finding(ctx.scan_id \o "-threat-priority",
                     "Threat Prioritization Analysis", INFO, THREAT,
                     [total_findings |-> Len(ctx.previous_findings),
                      unique_findings |-> Len(deduplicated),
                      duplicates_removed |-> duplicates_removed,
                      remediation |-> IF insights # "" THEN insights
                                      ELSE DefaultRemediation]))>>)

\* ReportAgent._generate_llm_report / _generate_basic_report: which report is written
ReportContent(ctx) ==
    IF ctx.llm_client # "absent" /\ ctx.previous_findings # <<>>
    THEN LET generated == LLMGenerate(ctx.llm_client)
         IN  IF generated.raised
             THEN "basic report + Executive summary generation failed."
             ELSE "basic report + " \o generated.text
    ELSE "basic report"

\* ReportAgent.run
ReportAgentRun(ctx) ==
    LET thought == Think(REPORT, ctx, "Generate comprehensive security scan report")
    IN  Yields(<<ThoughtItem(thought),
            FindingItem(Finding(ctx.scan_id \o "-report",
                "Security Scan Report Generated", INFO, REPORT,
                [total_findings |-> Len(ctx.previous_findings),
                 llm_enhanced |-> ctx.llm_client # "absent",
                 report |-> ReportContent(ctx)]))>>)

ToolAgents == {STATIC, DEPENDENCY, SECRET, FUZZER, DAST, TEMPLATE}

\* whether this agent's run gets as far as launching its tool
LaunchesTool(agent, ctx, fsys) ==
    CASE agent \in {STATIC, DEPENDENCY, SECRET} -> PathExists(fsys, ctx.target)
      [] agent = FUZZER -> StartsWithHttp(ctx.target) /\ FfufWordlist \in fsys
      [] agent \in {DAST, TEMPLATE} -> StartsWithHttp(ctx.target)
      [] OTHER -> FALSE

\* factories[entry.agent].run(ctx)
AgentRun(agent, ctx, fsys, process) ==
    CASE agent = STATIC -> StaticAgentRun(ctx, fsys, process)
      [] agent = DEPENDENCY -> DependencyAgentRun(ctx, fsys, process)
      [] agent = SECRET -> SecretAgentRun(ctx, fsys, process)
      [] agent = FUZZER -> FuzzerAgentRun(ctx, fsys, process)
      [] agent = DAST -> DASTAgentRun(ctx, fsys, process)
      [] agent = TEMPLATE -> TemplateAgentRun(ctx, fsys, process)
      [] agent = ADAPTIVE -> AdaptiveAgentRun(ctx)
      [] agent = THREAT -> ThreatAgentRun(ctx)
      [] agent = REPORT -> ReportAgentRun(ctx)

-----------------------------------------------------------------------------
(* orchestrator.py: the run of a scan *)

\* BaseAgent.display_name of each agent class
DisplayName(agent) ==
    CASE agent = STATIC -> "Static Code Analysis"
      [] agent = DEPENDENCY -> "Dependency Scanner"
      [] agent = SECRET -> "Secret Leakage Scanner"
      [] agent = FUZZER -> "Fuzzer / Directory Discovery"
      [] agent = DAST -> "DAST / ZAP Agent"
      [] agent = TEMPLATE -> "Nuclei Template Agent"
      [] agent = ADAPTIVE -> "LLM Adaptive Agent"
      [] agent = THREAT -> "Threat Prioritization"
      [] agent = REPORT -> "Reporting Agent"

\* clone_repo called without a scan id: base_workspace_dir / repo_name
WorkspacePathShared(scan_id) == "/tmp/aegis-workspaces/o-r"

\* GitService.clone_repo: base_workspace_dir / f"{scan_id}-{repo_name}"
WorkspacePath(scan_id) == "/tmp/aegis-workspaces/" \o scan_id \o "-o-r"

\* previous_findings = status.findings: the scan's own list handed to the agent
ListAlias(findings) == [alias |-> TRUE, items |-> findings]

\* list(status.findings): a new list with the same elements.  A list held by the
\* context is written as its elements and whether it is the scan's own list.
ListCopy(findings) == [alias |-> FALSE, items |-> findings]

\* the elements of the context's previous_findings, given the scan's findings
PreviousFindings(ctx, status) ==
    IF ctx.previous_findings.alias THEN status.findings ELSE ctx.previous_findings.items

\* AgentContext(...) of step 2 of _run_scan
NewAgentContext(scan_id, request, workspace_path, client) ==
    [scan_id |-> scan_id,
     target |-> IF Truthy(request.target_url) THEN request.target_url
                ELSE IF Truthy(request.target) THEN request.target
                ELSE workspace_path,
     previous_findings |-> [alias |-> FALSE, items |-> <<>>],
     llm_client |-> client]

\* the target the context carries into agent.run: the two updates of ctx.target
ResolveTarget(ctx, request, workspace_path, agent) ==
    LET after_static ==
            IF Truthy(workspace_path) /\ agent \in {STATIC, DEPENDENCY, SECRET}
            THEN workspace_path ELSE ctx.target
    IN  IF Truthy(request.target_url) /\ agent \in {DAST, FUZZER, TEMPLATE}
        THEN request.target_url ELSE after_static

\* a normalisation that hands on the awaited list as one item
StreamAgentOutputsWhole(run_result) ==
    [items |-> IF run_result.shape = "generator" THEN run_result.items
               ELSE <<[kind |-> "list", value |-> run_result.items]>>,
     exc |-> run_result.exc]

\* Orchestrator._stream_agent_outputs: the items handed on, then the exception.
\* An async generator is iterated; anything else is awaited, and the result is
\* nothing (None), the items of a list or tuple, or the one item itself.  None
\* items are skipped.
StreamAgentOutputs(run_result) ==
    LET NotNone(item) == item.kind # "none"
    IN  [items |-> CASE run_result.shape = "generator" ->
                            SelectSeq(run_result.items, NotNone)
                     [] run_result.exc # "" -> <<>>
                     [] run_result.shape = "coroutine" ->
                            SelectSeq(run_result.items, NotNone)
                     [] run_result.shape = "coroutine_none" -> <<>>
                     [] run_result.shape = "coroutine_item" -> run_result.items,
         exc |-> run_result.exc]

\* an insertion of the new findings at the head of the list
PrependFindings(status, findings) == [status EXCEPT !.findings = findings \o @]

\* an append that drops a finding whose title the list already holds
AppendUniqueFindings(status, findings) ==
    [status EXCEPT !.findings = @ \o
        SelectSeq(findings, LAMBDA f : \A i \in DOMAIN status.findings :
                                           status.findings[i].title # f.title)]

\* Orchestrator._append_findings
AppendFindings(status, findings) == [status EXCEPT !.findings = @ \o findings]

\* a terminal step that leaves the entry RUNNING
TerminalStatusStillRunning(exc) == RUNNING

\* the status and message of the terminal step of an agent's slot
TerminalStatus(exc) == IF exc = "" THEN COMPLETED ELSE FAILED

TerminalMessage(agent, exc) ==
    IF exc = "" THEN DisplayName(agent) \o " completed" ELSE exc

\* only the first entry is marked
MarkFirstFailed(progress) ==
    [i \in DOMAIN progress |->
        IF i = 1 THEN [progress[i] EXCEPT !.status = FAILED,
                                          !.message = "Repository clone failed"]
        ELSE progress[i]]

\* the progress list after a failed clone
MarkAllFailed(progress) ==
    [i \in DOMAIN progress |->
        [progress[i] EXCEPT !.status = FAILED, !.message = "Repository clone failed"]]

IdleTask ==
    [pc |-> "start", idx |-> 1, workspace_path |-> "",
     ctx |-> [scan_id |-> "", target |-> "",
              previous_findings |-> [alias |-> FALSE, items |-> <<>>],
              llm_client |-> "absent"],
     pending |-> <<>>, exc |-> "", raised |-> ""]

Init ==
    /\ llm_client \in {"absent", "ok", "raises"}
    /\ enabled_agents = DefaultEnabledAgents
    /\ scans = EmptyMap
    /\ tasks = EmptyMap
    /\ requests = EmptyMap
    /\ workspaces = EmptyMap
    /\ db = EmptyMap
    /\ fs = InitialPaths \cup {FfufWordlist}
    /\ published = EmptyMap
    /\ runs = EmptyMap
    /\ waits = EmptyMap
    /\ rejected = FALSE
    /\ faults = 0
    /\ connections = EmptyMap
    /\ closed = {}
    /\ broadcasts = <<>>

\* start_scan on a request with no source: ValueError, nothing else happens.
\* The calls of start_scan are bounded by the scan ids: none is made once every
\* id is in use.
StartScanRejected(request) ==
    /\ DOMAIN scans # ScanIds
    /\ ~ValidateRequest(request)
    /\ rejected' = TRUE
    /\ UNCHANGED <<connections, closed, broadcasts, llm_client, enabled_agents, scans, tasks, requests, workspaces,
                   db, fs, published, runs, waits, faults>>

\* settings.enabled_agents left as start_scan replaced it
KeepReplacedAgents(original_enabled, replaced) == replaced

\* settings.enabled_agents after start_scan has built the progress list: the
\* list is replaced, read by _create_progress and put back, with no await in
\* between
RestoreEnabledAgents(original_enabled, replaced) == original_enabled

\* start_scan on a valid request
StartScan(request, scan_id) ==
    /\ ValidateRequest(request)
    /\ scan_id \notin DOMAIN scans
    /\ LET original_enabled == enabled_agents
           replaced == DetermineEnabledAgents(request, original_enabled)
           status == [scan_id |-> scan_id,
                      target |-> DetermineTargetDisplay(request),
                      progress |-> CreateProgress(replaced),
                      findings |-> <<>>,
                      logs |-> <<>>,
                      thoughts |-> <<>>,
                      github_url |-> request.github_url,
                      target_url |-> request.target_url,
                      workspace_path |-> ""]
           saved == Save(db, status)
       IN  /\ enabled_agents' = RestoreEnabledAgents(original_enabled, replaced)
           /\ scans' = Put(scans, scan_id, status)
           /\ db' = saved.db
           /\ tasks' = Put(tasks, scan_id, IdleTask)
           /\ requests' = Put(requests, scan_id, request)
           /\ runs' = Put(runs, scan_id, <<>>)
           /\ rejected' = FALSE
    /\ UNCHANGED <<connections, closed, broadcasts, llm_client, workspaces, fs, published, waits, faults>>

\* _run_scan up to the first await: the clone announcement, or straight to step 2
RunScan(s) ==
    /\ s \in DOMAIN tasks
    /\ tasks[s].pc = "start"
    /\ LET request == requests[s]
           status == scans[s]
       IN  IF Truthy(request.github_url)
           THEN LET logged == [status EXCEPT !.logs =
                        Append(@, "Cloning repository: " \o request.github_url)]
                IN  /\ scans' = [scans EXCEPT ![s] = logged]
                    /\ published' = Put(published, s, logged)
                    /\ tasks' = [tasks EXCEPT ![s].pc = "clone"]
           ELSE /\ tasks' = [tasks EXCEPT ![s].pc = "loop",
                        ![s].ctx = NewAgentContext(s, request, "", llm_client)]
                /\ UNCHANGED <<scans, published>>
    /\ UNCHANGED <<connections, closed, broadcasts, llm_client, enabled_agents, requests, workspaces, db, fs, runs,
                   waits, rejected, faults>>

\* the clone succeeds: workspace recorded, repository info logged, step 2
CloneSucceeds(s) ==
    /\ s \in DOMAIN tasks
    /\ tasks[s].pc = "clone"
    /\ LET workspace_path == WorkspacePath(s)
           status == [scans[s] EXCEPT !.workspace_path = workspace_path,
                          !.logs = Append(@, "Successfully cloned: " \o requests[s].github_url)]
       IN  /\ fs' = fs \cup {workspace_path}
           /\ workspaces' = Put(workspaces, s, workspace_path)
           /\ scans' = [scans EXCEPT ![s] = status]
           /\ published' = Put(published, s, status)
           /\ tasks' = [tasks EXCEPT ![s].pc = "loop",
                   ![s].workspace_path = workspace_path,
                   ![s].ctx = NewAgentContext(s, requests[s], workspace_path, llm_client)]
    /\ UNCHANGED <<connections, closed, broadcasts, llm_client, enabled_agents, requests, db, runs, waits, rejected, faults>>

\* the ways clone_repo fails once the workspace directory is made: git exits
\* non-zero, or the git binary is not found
CloneFailures == {"exit", "no_git"}

\* str(GitCloneError) of a failed clone
GitCloneErrorText(failure) ==
    IF failure = "no_git"
    THEN "Git command not found. Ensure git is installed and in PATH."
    ELSE "Failed to clone repository: Failed to clone repository: fatal"

\* the workspace directory after a failed clone_repo: removed when git exits
\* non-zero, left as made when the git binary is not found
ClonedFilesAfterFailure(fsys, workspace_path, failure) ==
    IF failure = "no_git" THEN fsys \cup {workspace_path} ELSE fsys \ {workspace_path}

\* clone_repo raises GitCloneError: log, publish, mark every entry FAILED, return;
\* workspace_path is still None, so the outer finally does nothing
CloneFails(s, failure) ==
    /\ s \in DOMAIN tasks
    /\ tasks[s].pc = "clone"
    /\ LET logged == [scans[s] EXCEPT !.logs =
                  Append(@, "Failed to clone repository: " \o GitCloneErrorText(failure))]
       IN  /\ published' = Put(published, s, logged)
           /\ scans' = [scans EXCEPT ![s] =
                  [logged EXCEPT !.progress = MarkAllFailed(@)]]
           /\ tasks' = [tasks EXCEPT ![s].pc = "done"]
    /\ fs' = ClonedFilesAfterFailure(fs, WorkspacePath(s), failure)
    /\ UNCHANGED <<connections, closed, broadcasts, llm_client, enabled_agents, requests, workspaces, db, runs,
                   waits, rejected, faults>>


\* top of the agent loop: the slot's agent is looked up; RUNNING, started_at, publish
AgentBegin(s) ==
    /\ s \in DOMAIN tasks
    /\ tasks[s].pc = "loop"
    /\ tasks[s].idx <= Len(scans[s].progress)
    /\ LET i == tasks[s].idx
           entry == scans[s].progress[i]
       IN  IF entry.agent \notin AgentFactories
           THEN /\ scans' = [scans EXCEPT ![s].progress[i].status = SKIPPED]
                /\ tasks' = [tasks EXCEPT ![s].idx = i + 1]
                /\ UNCHANGED published
           ELSE LET status == [scans[s] EXCEPT !.progress[i].status = RUNNING,
                                   !.progress[i].started_at = TRUE]
                IN  /\ scans' = [scans EXCEPT ![s] = status]
                    /\ published' = Put(published, s, status)
                    /\ tasks' = [tasks EXCEPT ![s].pc = "invoke"]
    /\ UNCHANGED <<connections, closed, broadcasts, llm_client, enabled_agents, requests, workspaces, db, fs, runs,
                   waits, rejected, faults>>

\* the context is updated and agent.run(ctx) is called with the outcome of its tool
InvokeWith(s, process) ==
    LET i == tasks[s].idx
        agent == scans[s].progress[i].agent
        ctx == [tasks[s].ctx EXCEPT
                   !.target = ResolveTarget(tasks[s].ctx, requests[s],
                                            tasks[s].workspace_path, agent),
                   !.previous_findings = ListCopy(scans[s].findings)]
        seen == [ctx EXCEPT !.previous_findings = PreviousFindings(ctx, scans[s])]
        stream == StreamAgentOutputs(AgentRun(agent, seen, fs, process))
    IN  /\ tasks' = [tasks EXCEPT ![s].pc = "consume", ![s].ctx = ctx,
                ![s].pending = stream.items, ![s].exc = stream.exc]
        /\ runs' = [runs EXCEPT ![s] = Append(@,
                [pos |-> i, agent |-> agent, target |-> ctx.target,
                 previous_findings |-> seen.previous_findings,
                 process |-> IF LaunchesTool(agent, ctx, fs) THEN <<process>> ELSE <<>>,
                 items |-> stream.items, exc |-> stream.exc, yielded |-> <<>>])]

AgentInvoke(s) ==
    /\ s \in DOMAIN tasks
    /\ tasks[s].pc = "invoke"
    /\ LET i == tasks[s].idx
           agent == scans[s].progress[i].agent
           target == ResolveTarget(tasks[s].ctx, requests[s],
                                   tasks[s].workspace_path, agent)
       IN  IF LaunchesTool(agent, [target |-> target], fs)
           THEN \E process \in Processes :
                    /\ process # NominalProcess => faults < MaxFaults
                    /\ faults' = IF process # NominalProcess THEN faults + 1 ELSE faults
                    /\ InvokeWith(s, process)
           ELSE /\ faults' = faults
                /\ InvokeWith(s, NominalProcess)
    /\ UNCHANGED <<connections, closed, broadcasts, llm_client, enabled_agents, scans, requests, workspaces, db, fs,
                   published, waits, rejected>>

\* one item of the agent's output: a thought is appended and published, a finding
\* is appended
ConsumeItem(s) ==
    /\ s \in DOMAIN tasks
    /\ tasks[s].pc = "consume"
    /\ tasks[s].pending # <<>>
    /\ LET item == Head(tasks[s].pending)
       IN  /\ tasks' = [tasks EXCEPT ![s].pending = Tail(@)]
           /\ IF item.kind = "thought"
              THEN LET status == [scans[s] EXCEPT !.thoughts = Append(@, item.value)]
                   IN  /\ scans' = [scans EXCEPT ![s] = status]
                       /\ published' = Put(published, s, status)
                       /\ UNCHANGED runs
              ELSE IF item.kind = "finding"
              THEN /\ scans' = [scans EXCEPT ![s] = AppendFindings(@, <<item.value>>)]
                   /\ runs' = [runs EXCEPT ![s][Len(runs[s])].yielded =
                                   Append(@, item.value)]
                   /\ UNCHANGED published
              ELSE UNCHANGED <<scans, runs, published>>
    /\ UNCHANGED <<connections, closed, broadcasts, llm_client, enabled_agents, requests, workspaces, db, fs, waits,
                   rejected, faults>>

\* the slot's terminal step: COMPLETED or FAILED, then the finally block
\* (ended_at, 100 percent, log line, save, publish).  An exception of save leaves
\* the loop.
AgentTerminal(s) ==
    /\ s \in DOMAIN tasks
    /\ tasks[s].pc = "consume"
    /\ tasks[s].pending = <<>>
    /\ LET i == tasks[s].idx
           agent == scans[s].progress[i].agent
           message == TerminalMessage(agent, tasks[s].exc)
           status == [scans[s] EXCEPT
                         !.progress[i].status = TerminalStatus(tasks[s].exc),
                         !.progress[i].message = message,
                         !.progress[i].ended_at = TRUE,
                         !.progress[i].percent_complete = 100,
                         !.logs = Append(@, IF message # "" THEN message
                                            ELSE DisplayName(agent) \o " finished")]
           saved == Save(db, status)
       IN  /\ scans' = [scans EXCEPT ![s] = status]
           /\ db' = saved.db
           /\ IF saved.raised
              THEN /\ tasks' = [tasks EXCEPT ![s].pc = "unwind",
                           ![s].raised = "IntegrityError", ![s].exc = ""]
                   /\ UNCHANGED published
              ELSE /\ tasks' = [tasks EXCEPT ![s].pc = "loop", ![s].idx = i + 1,
                           ![s].exc = ""]
                   /\ published' = Put(published, s, status)
    /\ UNCHANGED <<connections, closed, broadcasts, llm_client, enabled_agents, requests, workspaces, fs, runs, waits,
                   rejected, faults>>

\* the outer finally block, after the loop or on the way out of an exception:
\* the workspace, if any, is logged, removed and forgotten, and a publish follows
Finally(s) ==
    /\ s \in DOMAIN tasks
    /\ \/ tasks[s].pc = "loop" /\ tasks[s].idx > Len(scans[s].progress)
       \/ tasks[s].pc = "unwind"
    /\ LET workspace_path == tasks[s].workspace_path
       IN  IF Truthy(workspace_path)
           THEN LET status == [scans[s] EXCEPT !.logs =
                        Append(@, "Cleaning up workspace: " \o workspace_path)]
                IN  /\ scans' = [scans EXCEPT ![s] = status]
                    /\ fs' = fs \ {workspace_path}
                    /\ workspaces' = Remove(workspaces, s)
                    /\ published' = Put(published, s, status)
           ELSE UNCHANGED <<scans, fs, workspaces, published>>
    /\ tasks' = [tasks EXCEPT ![s].pc = IF tasks[s].raised # "" THEN "raised" ELSE "done"]
    /\ UNCHANGED <<connections, closed, broadcasts, llm_client, enabled_agents, requests, db, runs, waits, rejected, faults>>

\* Orchestrator.get_status
GetStatus(s) == IF s \in DOMAIN scans THEN <<scans[s]>> ELSE Load(db, s)

\* wait_for_completion: awaiting the finished task re-raises its exception,
\* otherwise the status is returned
WaitForCompletion(s) ==
    /\ s \in DOMAIN tasks
    /\ tasks[s].pc \in {"done", "raised"}
    /\ s \notin DOMAIN waits
    /\ waits' = Put(waits, s,
           IF tasks[s].pc = "raised" THEN [raised |-> TRUE, status |-> <<>>]
           ELSE [raised |-> GetStatus(s) = <<>>, status |-> GetStatus(s)])
    /\ UNCHANGED <<connections, closed, broadcasts, llm_client, enabled_agents, scans, tasks, requests, workspaces, db,
                   fs, published, runs, rejected, faults>>

Next ==
    \/ \E request \in ScanRequests : StartScanRejected(request)
    \/ \E request \in ScanRequests, scan_id \in ScanIds : StartScan(request, scan_id)
    \/ \E s \in ScanIds : RunScan(s)
    \/ \E s \in ScanIds : CloneSucceeds(s)
    \/ \E s \in ScanIds, failure \in CloneFailures : CloneFails(s, failure)
    \/ \E s \in ScanIds : AgentBegin(s)
    \/ \E s \in ScanIds : AgentInvoke(s)
    \/ \E s \in ScanIds : ConsumeItem(s)
    \/ \E s \in ScanIds : AgentTerminal(s)
    \/ \E s \in ScanIds : Finally(s)
    \/ \E s \in ScanIds : WaitForCompletion(s)

Spec == Init /\ [][Next]_vars

\* one step of the run task of scan s
TaskStep(s) ==
    \/ RunScan(s)
    \/ CloneSucceeds(s)
    \/ \E failure \in CloneFailures : CloneFails(s, failure)
    \/ AgentBegin(s)
    \/ AgentInvoke(s)
    \/ ConsumeItem(s)
    \/ AgentTerminal(s)
    \/ Finally(s)

\* The event loop resumes every task that is ready (asyncio.create_task in
\* start_scan), and the clone and every agent's run end: a run task that can
\* take a step eventually takes one.
FairSpec == Init /\ [][Next]_vars /\ \A s \in ScanIds : WF_vars(TaskStep(s))

\* One scan of a local target with every agent, run with an LLM that answers
\* every call or with one that raises in the calls of the think step only.
ThinkRequest ==
    [github_url |-> "", target_url |-> "", target |-> "/srv/app", enabled_agents |-> <<>>]

InitThink ==
    /\ llm_client \in {"ok", "think_raises"}
    /\ enabled_agents = DefaultEnabledAgents
    /\ scans = EmptyMap
    /\ tasks = EmptyMap
    /\ requests = EmptyMap
    /\ workspaces = EmptyMap
    /\ db = EmptyMap
    /\ fs = InitialPaths \cup {FfufWordlist}
    /\ published = EmptyMap
    /\ runs = EmptyMap
    /\ waits = EmptyMap
    /\ rejected = FALSE
    /\ faults = 0
    /\ connections = EmptyMap
    /\ closed = {}
    /\ broadcasts = <<>>

NextThink ==
    \/ \E scan_id \in ScanIds : StartScan(ThinkRequest, scan_id)
    \/ \E s \in ScanIds : RunScan(s)
    \/ \E s \in ScanIds : AgentBegin(s)
    \/ \E s \in ScanIds : AgentInvoke(s)
    \/ \E s \in ScanIds : ConsumeItem(s)
    \/ \E s \in ScanIds : AgentTerminal(s)
    \/ \E s \in ScanIds : Finally(s)
    \/ \E s \in ScanIds : WaitForCompletion(s)

SpecThink == InitThink /\ [][NextThink]_vars

\* An agent of any shape registered in place of the scan's agent: its run hands
\* over up to MaxItems items (a thought, two findings, None) as an async
\* generator, as a list when awaited, as one item when awaited, or as None.
MaxItems == 2

StubRequest ==
    [github_url |-> "", target_url |-> "http://app.test", target |-> "",
     enabled_agents |-> <<TEMPLATE>>]

StubItems ==
    LET values ==
            { ThoughtItem(AgentThought(TEMPLATE, "thinking", "plan")),
              FindingItem(Finding("f1", "Issue", HIGH, TEMPLATE, [tool |-> "stub"])),
              FindingItem(Finding("f2", "Issue", LOW, TEMPLATE, [tool |-> "stub"])),
              [kind |-> "none"] }
    IN  UNION {[1..n -> values] : n \in 0..MaxItems}

\* the ways an agent's run can hand over the items
StubShapes(items) ==
    {"generator", "coroutine"}
        \cup (IF Len(items) = 1 /\ items[1].kind # "none" THEN {"coroutine_item"} ELSE {})
        \cup (IF items = <<>> THEN {"coroutine_none"} ELSE {})

\* agent.run(ctx) of the registered agent, consumed through _stream_agent_outputs
StubInvoke(s) ==
    /\ s \in DOMAIN tasks
    /\ tasks[s].pc = "invoke"
    /\ \E items \in StubItems : \E shape \in StubShapes(items) :
           LET i == tasks[s].idx
               agent == scans[s].progress[i].agent
               ctx == [tasks[s].ctx EXCEPT
                          !.target = ResolveTarget(tasks[s].ctx, requests[s],
                                                   tasks[s].workspace_path, agent),
                          !.previous_findings = ListCopy(scans[s].findings)]
               stream == StreamAgentOutputs([shape |-> shape, items |-> items, exc |-> ""])
           IN  /\ tasks' = [tasks EXCEPT ![s].pc = "consume", ![s].ctx = ctx,
                       ![s].pending = stream.items, ![s].exc = stream.exc]
               /\ runs' = [runs EXCEPT ![s] = Append(@,
                       [pos |-> i, agent |-> agent, target |-> ctx.target,
                        previous_findings |-> PreviousFindings(ctx, scans[s]),
                        process |-> <<>>, shape |-> shape, given |-> items,
                        items |-> stream.items, exc |-> stream.exc, yielded |-> <<>>])]
    /\ UNCHANGED <<connections, closed, broadcasts, llm_client, enabled_agents, scans, requests, workspaces, db, fs,
                   published, waits, rejected, faults>>

NextStub ==
    \/ \E scan_id \in ScanIds : StartScan(StubRequest, scan_id)
    \/ \E s \in ScanIds : RunScan(s)
    \/ \E s \in ScanIds : AgentBegin(s)
    \/ \E s \in ScanIds : StubInvoke(s)
    \/ \E s \in ScanIds : ConsumeItem(s)
    \/ \E s \in ScanIds : AgentTerminal(s)
    \/ \E s \in ScanIds : Finally(s)
    \/ \E s \in ScanIds : WaitForCompletion(s)

SpecStub == Init /\ [][NextStub]_vars

\* Two scans on one orchestrator, their tasks interleaved at every await: a
\* repository scan and a URL scan, each with a short explicit agent list.
TwoScanIds == {"s1", "s2"}

TwoScanRequests ==
    { [github_url |-> "https://github.com/o/r", target_url |-> "", target |-> "",
       enabled_agents |-> <<REPORT, DEPENDENCY, THREAT>>],
      [github_url |-> "", target_url |-> "http://app.test", target |-> "",
       enabled_agents |-> <<"bogus", SECRET, TEMPLATE>>] }

NextTwoScans ==
    \/ \E request \in TwoScanRequests, scan_id \in TwoScanIds : StartScan(request, scan_id)
    \/ \E s \in TwoScanIds : RunScan(s)
    \/ \E s \in TwoScanIds : CloneSucceeds(s)
    \/ \E s \in TwoScanIds, failure \in CloneFailures : CloneFails(s, failure)
    \/ \E s \in TwoScanIds : AgentBegin(s)
    \/ \E s \in TwoScanIds : AgentInvoke(s)
    \/ \E s \in TwoScanIds : ConsumeItem(s)
    \/ \E s \in TwoScanIds : AgentTerminal(s)
    \/ \E s \in TwoScanIds : Finally(s)
    \/ \E s \in TwoScanIds : WaitForCompletion(s)

SpecTwoScans == Init /\ [][NextTwoScans]_vars

\* The calls of start_scan for two scan ids, with every request, while the run
\* task of a scan already started takes its first step.
NextStart ==
    \/ \E request \in ScanRequests : StartScanRejected(request)
    \/ \E request \in ScanRequests, scan_id \in TwoScanIds : StartScan(request, scan_id)
    \/ \E s \in TwoScanIds : RunScan(s)

SpecStart == Init /\ [][NextStart]_vars

-----------------------------------------------------------------------------
(***************************************************************************)
(* The websocket manager (web/websocket_manager.py). The lock is never     *)
(* held across an await, so it is free whenever a coroutine asks for it:   *)
(* the block under the lock is one step, and each send_json is one step.   *)
(***************************************************************************)

\* The websockets of the /ws/{scan_id} endpoint calls, and the scan id in the
\* path of each
Websockets == {"w1", "w2", "w3", "w4"}

PathScanId == [websocket \in Websockets |-> IF websocket = "w4" THEN "s2" ELSE "s1"]

\* The broadcast calls made
MaxBroadcasts == 1

\* self._connections.get(scan_id, [])
ConnectionsOf(conns, scan_id) ==
    IF scan_id \in DOMAIN conns THEN conns[scan_id] ELSE <<>>

\* list.remove: the first occurrence goes
RemoveFirst(conns, websocket) ==
    LET first == CHOOSE i \in DOMAIN conns :
                     /\ conns[i] = websocket
                     /\ \A j \in 1..(i - 1) : conns[j] # websocket
    IN  SubSeq(conns, 1, first - 1) \o SubSeq(conns, first + 1, Len(conns))

\* connect, after websocket.accept(): the endpoint call of main.py registers
\* its own websocket, once.
Connect(scan_id, websocket) ==
    /\ websocket \notin closed
    /\ \A s \in DOMAIN connections : websocket \notin Range(connections[s])
    /\ connections' = Put(connections, scan_id,
                          Append(ConnectionsOf(connections, scan_id), websocket))
    /\ UNCHANGED <<closed, broadcasts, llm_client, enabled_agents, scans, tasks,
                   requests, workspaces, db, fs, published, runs, waits, rejected,
                   faults>>

\* disconnect, called by the endpoint with the scan id it connected with
Disconnect(scan_id, websocket) ==
    /\ websocket \in Range(ConnectionsOf(connections, scan_id))
    /\ LET conns == ConnectionsOf(connections, scan_id)
           left == IF websocket \in Range(conns)
                   THEN RemoveFirst(conns, websocket)
                   ELSE conns
       IN  connections' =
               IF scan_id \notin DOMAIN connections THEN connections
               ELSE IF left = <<>> THEN Remove(connections, scan_id)
               ELSE Put(connections, scan_id, left)
    /\ closed' = closed \cup {websocket}
    /\ UNCHANGED <<broadcasts, llm_client, enabled_agents, scans, tasks, requests,
                   workspaces, db, fs, published, runs, waits, rejected, faults>>

\* broadcast, up to the loop: conns = list(...) under the lock. The call keeps
\* what was registered and what had disconnected when it started.
BroadcastStart(scan_id) ==
    /\ Len(broadcasts) < MaxBroadcasts
    /\ broadcasts' = Append(broadcasts,
                            [scan_id |-> scan_id,
                             conns |-> ConnectionsOf(connections, scan_id),
                             sent |-> <<>>,
                             returned |-> FALSE,
                             raised |-> FALSE,
                             connections_at_start |-> connections,
                             closed_at_start |-> closed])
    /\ UNCHANGED <<connections, closed, llm_client, enabled_agents, scans, tasks,
                   requests, workspaces, db, fs, published, runs, waits, rejected,
                   faults>>

\* One turn of the loop whose send_json raises and nothing catches it
SendJsonUnguarded(call, failed) ==
    IF failed
    THEN [call EXCEPT !.conns = <<>>,
                      !.sent = Append(@, [websocket |-> Head(call.conns),
                                          failed |-> TRUE]),
                      !.returned = TRUE,
                      !.raised = TRUE]
    ELSE [call EXCEPT !.conns = Tail(@),
                      !.sent = Append(@, [websocket |-> Head(call.conns),
                                          failed |-> FALSE])]

\* One turn of the loop: send_json to the next websocket of the copy; an
\* exception it raises is logged and the loop goes on.
SendJson(call, failed) ==
    [call EXCEPT !.conns = Tail(@),
                 !.sent = Append(@, [websocket |-> Head(call.conns),
                                     failed |-> failed])]

BroadcastSend(b) ==
    /\ ~broadcasts[b].returned
    /\ broadcasts[b].conns # <<>>
    /\ \E failed \in BOOLEAN :
           broadcasts' = [broadcasts EXCEPT ![b] = SendJson(@, failed)]
    /\ UNCHANGED <<connections, closed, llm_client, enabled_agents, scans, tasks,
                   requests, workspaces, db, fs, published, runs, waits, rejected,
                   faults>>

\* The loop is over: broadcast returns None
BroadcastReturn(b) ==
    /\ ~broadcasts[b].returned
    /\ broadcasts[b].conns = <<>>
    /\ broadcasts' = [broadcasts EXCEPT ![b].returned = TRUE]
    /\ UNCHANGED <<connections, closed, llm_client, enabled_agents, scans, tasks,
                   requests, workspaces, db, fs, published, runs, waits, rejected,
                   faults>>

InitSink == Init /\ llm_client = "absent"

NextSink ==
    \/ \E websocket \in Websockets : Connect(PathScanId[websocket], websocket)
    \/ \E websocket \in Websockets : Disconnect(PathScanId[websocket], websocket)
    \/ \E scan_id \in TwoScanIds : BroadcastStart(scan_id)
    \/ \E b \in DOMAIN broadcasts : BroadcastSend(b)
    \/ \E b \in DOMAIN broadcasts : BroadcastReturn(b)

SpecSink == InitSink /\ [][NextSink]_vars

-----------------------------------------------------------------------------
(* Properties *)

\* the run task of scan s has finished, normally or with an exception
TaskFinished(s) == s \in DOMAIN tasks /\ tasks[s].pc \in {"done", "raised"}

\* the findings the calls runs[s][from..to] appended, in order
RECURSIVE YieldedBy(_, _, _)
YieldedBy(s, from, to) ==
    IF to < from THEN <<>> ELSE YieldedBy(s, from, to - 1) \o runs[s][to].yielded

\* C1 (failure isolation, P1): once the run task has finished, for every call
\* of an agent's run that raised, at slot K: every slot K+1..N has been invoked,
\* the findings those later calls yielded are all in the scan's findings list,
\* and slot K is FAILED with the exception text as its message while no later
\* slot carries that failure without having raised itself.
C1_FailureIsolation ==
    \A s \in DOMAIN runs : TaskFinished(s) =>
        \A r \in DOMAIN runs[s] : runs[s][r].exc # "" =>
            LET K == runs[s][r].pos
                N == Len(scans[s].progress)
            IN  /\ scans[s].progress[K].status = FAILED
                /\ scans[s].progress[K].message = runs[s][r].exc
                /\ \A j \in (K + 1)..N : \E q \in DOMAIN runs[s] :
                       /\ runs[s][q].pos = j
                       /\ \A f \in DOMAIN runs[s][q].yielded :
                              \E g \in DOMAIN scans[s].findings :
                                  scans[s].findings[g] = runs[s][q].yielded[f]
                       /\ runs[s][q].exc = "" => scans[s].progress[j].status # FAILED

\* C2 (terminal coverage, P3): once the run task has finished, and so once
\* wait_for_completion has been answered, every entry of the progress list is
\* COMPLETED, FAILED or SKIPPED.
C2_TerminalCoverage ==
    \A s \in DOMAIN scans : (TaskFinished(s) \/ s \in DOMAIN waits) =>
        \A i \in DOMAIN scans[s].progress :
            scans[s].progress[i].status \in {COMPLETED, FAILED, SKIPPED}

\* the slot of a call of run has gone through its terminal step
SlotEnded(s, run) == scans[s].progress[run.pos].ended_at

\* C3 (accumulation ordering, P2): the previous_findings an agent is invoked
\* with is the concatenation, in execution order, of the findings the earlier
\* calls appended; while the agent is yielding, the list its context holds stays
\* what it was at invocation; and that list is not the scan's own list, so a
\* change the agent makes to it does not reach the scan's findings.
C3_AccumulationOrdering ==
    \A s \in DOMAIN runs :
        /\ \A r \in DOMAIN runs[s] :
               runs[s][r].previous_findings = YieldedBy(s, 1, r - 1)
        /\ tasks[s].pc = "consume" =>
               PreviousFindings(tasks[s].ctx, scans[s])
                   = runs[s][Len(runs[s])].previous_findings
        /\ ~tasks[s].ctx.previous_findings.alias

\* a later agent was invoked with earlier findings and has appended its own
C3_Witness ==
    \E s \in DOMAIN runs : \E r \in DOMAIN runs[s] :
        /\ r >= 2
        /\ runs[s][r].previous_findings # <<>>
        /\ runs[s][r].yielded # <<>>
        /\ tasks[s].pc = "consume"

\* the clone of scan s failed
CloneFailed(s) ==
    \E i \in DOMAIN scans[s].logs : \E failure \in CloneFailures :
        scans[s].logs[i] = "Failed to clone repository: " \o GitCloneErrorText(failure)

\* C4 (clone fatal path, P4): after a failed clone every entry of the progress
\* list is FAILED, no agent's run has been invoked for the scan, and the scan has
\* no finding and no thought.
C4_CloneFatalPath ==
    \A s \in DOMAIN scans : CloneFailed(s) =>
        /\ \A i \in DOMAIN scans[s].progress : scans[s].progress[i].status = FAILED
        /\ runs[s] = <<>>
        /\ scans[s].findings = <<>>
        /\ scans[s].thoughts = <<>>

\* a scan with several agents whose clone failed and whose task has finished
C4_Witness ==
    \E s \in DOMAIN scans :
        /\ CloneFailed(s)
        /\ TaskFinished(s)
        /\ Len(scans[s].progress) >= 2

\* the three meta-agents
MetaAgents == {ADAPTIVE, THREAT, REPORT}

\* C5 (degrade-not-fail, P5): with the LLM client absent or raising, each call of
\* a meta-agent's run hands over its thought and then exactly one finding of its
\* own, raises nothing, and its slot ends COMPLETED with that one finding
\* appended.
C5_DegradeNotFail ==
    llm_client \in {"absent", "raises"} =>
        \A s \in DOMAIN runs : \A r \in DOMAIN runs[s] :
            LET run == runs[s][r]
            IN  run.agent \in MetaAgents =>
                    /\ run.exc = ""
                    /\ Len(run.items) = 2
                    /\ run.items[1].kind = "thought"
                    /\ run.items[1].value.agent = run.agent
                    /\ run.items[1].value.thought # LLMGenerate("ok").text
                    /\ run.items[2].kind = "finding"
                    /\ run.items[2].value.source_agent = run.agent
                    /\ SlotEnded(s, run) =>
                           /\ scans[s].progress[run.pos].status = COMPLETED
                           /\ run.yielded = <<run.items[2].value>>

\* all three meta-agents have ended, over earlier findings, with a raising LLM
C5_Witness ==
    /\ llm_client = "raises"
    /\ \E s \in DOMAIN runs :
           \A agent \in MetaAgents : \E r \in DOMAIN runs[s] :
               /\ runs[s][r].agent = agent
               /\ runs[s][r].previous_findings # <<>>
               /\ SlotEnded(s, runs[s][r])
               /\ scans[s].progress[runs[s][r].pos].status = COMPLETED

\* C6 (no exception leaves the run): whatever fails while a slot is processed,
\* the agent's run or the save or publish of the slot's terminal step, the run
\* task ends normally and wait_for_completion returns the ScanStatus.
C6_RunNeverRaises ==
    \A s \in DOMAIN tasks :
        /\ tasks[s].pc # "raised"
        /\ s \in DOMAIN waits => ~waits[s].raised /\ waits[s].status = <<scans[s]>>

\* the agents of the progress list of scan s
ProgressAgents(s) == {scans[s].progress[i].agent : i \in DOMAIN scans[s].progress}

StaticFamily == {STATIC, DEPENDENCY, SECRET}
DynamicFamily == {DAST, FUZZER, TEMPLATE}

\* the progress list has the whole family exactly when the condition holds, and
\* none of it otherwise
FamilyExactlyWhen(s, family, condition) ==
    /\ condition => family \subseteq ProgressAgents(s)
    /\ ~condition => family \cap ProgressAgents(s) = {}

\* C7 (agent-set derivation), as stated: without an explicit agent list, the
\* static family is in the progress list exactly when the request supplies a code
\* source (a repository, or a legacy target that is a path), the dynamic family
\* exactly when it supplies a live URL (a target URL, or a legacy target that is
\* an http URL), and the meta-agents always.
C7_AsStated ==
    \A s \in DOMAIN scans : requests[s].enabled_agents = <<>> =>
        LET request == requests[s]
            legacy_url == Truthy(request.target) /\ StartsWithHttp(request.target)
            legacy_path == Truthy(request.target) /\ ~StartsWithHttp(request.target)
        IN  /\ FamilyExactlyWhen(s, StaticFamily,
                                 Truthy(request.github_url) \/ legacy_path)
            /\ FamilyExactlyWhen(s, DynamicFamily,
                                 Truthy(request.target_url) \/ legacy_url)
            /\ MetaAgents \subseteq ProgressAgents(s)

\* C7 (agent-set derivation), amended: without an explicit agent list, the static
\* family is in the progress list exactly when the request has a repository URL
\* or a legacy target, the dynamic family exactly when it has a target URL or a
\* legacy target (a legacy target of either form brings in both families), and
\* the meta-agents always; a request with only a target URL has no
\* path-requiring agent.
C7_AgentSetDerivation ==
    \A s \in DOMAIN scans : requests[s].enabled_agents = <<>> =>
        LET request == requests[s]
        IN  /\ FamilyExactlyWhen(s, StaticFamily,
                                 Truthy(request.github_url) \/ Truthy(request.target))
            /\ FamilyExactlyWhen(s, DynamicFamily,
                                 Truthy(request.target_url) \/ Truthy(request.target))
            /\ MetaAgents \subseteq ProgressAgents(s)
            /\ (Truthy(request.target_url) /\ ~Truthy(request.github_url)
                    /\ ~Truthy(request.target))
                   => ProgressAgents(s) = DynamicFamily \cup MetaAgents

\* a scan started from a request with only a target URL and no explicit list
C7_Witness ==
    \E s \in DOMAIN scans :
        /\ requests[s].enabled_agents = <<>>
        /\ Truthy(requests[s].target_url)
        /\ ~Truthy(requests[s].github_url)
        /\ ~Truthy(requests[s].target)
        /\ Len(scans[s].progress) = Cardinality(DynamicFamily \cup MetaAgents)

\* C8 (exit code 1 of the secret scanner): when the process exits with code 1 and
\* JSON on stdout, the secret agent returns the findings parsed from that stdout
\* and its slot ends COMPLETED with them appended; when the process exits with
\* another non-zero code or times out, the agent raises and its slot ends FAILED
\* with the error as its message.
C8_SecretExitCodeOne ==
    \A s \in DOMAIN runs : \A r \in DOMAIN runs[s] :
        LET run == runs[s][r]
            entry == scans[s].progress[run.pos]
        IN  (run.agent = SECRET /\ run.process # <<>>) =>
                LET process == run.process[1]
                    stdout == Stdout(GitleaksBin, process.out)
                    parsed == ParseGitleaksOutput(stdout.results).findings
                IN  /\ (~process.timed_out /\ process.returncode = 1
                            /\ stdout.text = "json") =>
                           /\ run.exc = ""
                           /\ run.items = FindingItems(parsed)
                           /\ SlotEnded(s, run) =>
                                  entry.status = COMPLETED /\ run.yielded = parsed
                    /\ (process.timed_out \/ process.returncode \notin {0, 1}) =>
                           /\ run.exc # ""
                           /\ run.items = <<>>
                           /\ SlotEnded(s, run) =>
                                  entry.status = FAILED /\ entry.message = run.exc

\* the secret scanner exited with code 1 and the slot ended with its findings
C8_Witness ==
    \E s \in DOMAIN runs : \E r \in DOMAIN runs[s] :
        /\ runs[s][r].agent = SECRET
        /\ runs[s][r].process # <<>>
        /\ runs[s][r].process[1].returncode = 1
        /\ runs[s][r].process[1].out.text = "json"
        /\ runs[s][r].yielded # <<>>
        /\ SlotEnded(s, runs[s][r])
        /\ scans[s].progress[runs[s][r].pos].status = COMPLETED

\* C9 (idempotent persistence, P6): a ScanStatus saved twice under its scan id
\* and loaded again has the findings (ids included), progress entries and
\* thoughts it was saved with, none duplicated and none altered.
C9_IdempotentPersistence ==
    \A s \in DOMAIN scans :
        LET status == scans[s]
            once == Save(db, status)
            twice == Save(once.db, status)
            loaded == Load(twice.db, s)
        IN  (~once.raised /\ ~twice.raised) =>
                /\ loaded # <<>>
                /\ loaded[1].findings = status.findings
                /\ loaded[1].progress = status.progress
                /\ loaded[1].thoughts = status.thoughts

\* the (title.lower(), source_agent) pairs of a list of findings
TitleKeys(findings) ==
    {<<Lower(findings[i].title), findings[i].source_agent>> : i \in DOMAIN findings}

SeverityMappers == {STATIC, DEPENDENCY, DAST, TEMPLATE}

\* the labels on the scale of each of these parsers: the keys of its SEVERITY_MAP,
\* for the template matcher the member names of FindingSeverity
RecognizedLabel(agent, label) ==
    CASE agent = STATIC ->
             Upper(label) \in {"CRITICAL", "HIGH", "MEDIUM", "LOW", "INFO",
                               "INFORMATIONAL", "ERROR", "WARNING"}
      [] agent = DEPENDENCY -> label \in {"CRITICAL", "HIGH", "MEDIUM", "LOW"}
      [] agent = DAST -> Lower(label) \in {"high", "medium", "low", "informational"}
      [] agent = TEMPLATE ->
             Upper(label) \in {"CRITICAL", "HIGH", "MEDIUM", "LOW", "INFO"}

\* C11 (total severity mapping): whenever the tool of the static, dependency,
\* dynamic or template agent exits normally with JSON results, the agent's parser
\* raises nothing and gives every result one canonical severity, and a result
\* whose native label is not on the parser's scale gets LOW.
C11_TotalSeverityMapping ==
    \A s \in DOMAIN runs : \A r \in DOMAIN runs[s] :
        LET run == runs[s][r]
        IN  (/\ run.agent \in SeverityMappers
             /\ run.process # <<>>
             /\ ~run.process[1].timed_out
             /\ run.process[1].returncode = 0
             /\ run.process[1].out.text = "json") =>
                /\ run.exc = ""
                /\ Len(run.items) = run.process[1].out.count
                /\ \A i \in DOMAIN run.items :
                       /\ run.items[i].value.severity \in FindingSeverity
                       /\ ~RecognizedLabel(run.agent, run.process[1].out.label)
                              => run.items[i].value.severity = LOW

\* the run of scan s attempted a clone
AttemptedClone(s) == Truthy(requests[s].github_url)

\* C12 (unconditional workspace cleanup): once the run of a scan that attempted
\* a clone has ended, whether the agents succeeded or failed, the clone failed or
\* an exception left the agent loop, the scan's workspace directory does not
\* exist and the scan id is not in the workspace map.
C12_WorkspaceCleanup ==
    \A s \in DOMAIN tasks : (AttemptedClone(s) /\ TaskFinished(s)) =>
        /\ WorkspacePath(s) \notin fs
        /\ s \notin DOMAIN workspaces

\* the paths scan s finds when it runs alone: the initial ones and, after its
\* clone, its own workspace
FilesAlone(s) ==
    InitialPaths \cup {FfufWordlist}
        \cup (IF Truthy(tasks[s].workspace_path) THEN {tasks[s].workspace_path} ELSE {})

\* what the r-th call of an agent's run of scan s hands over when the scan runs
\* alone with the same tool outcome
RunAlone(s, r) ==
    LET run == runs[s][r]
        ctx == [scan_id |-> s, target |-> run.target,
                previous_findings |-> YieldedBy(s, 1, r - 1),
                llm_client |-> llm_client]
        process == IF run.process # <<>> THEN run.process[1] ELSE NominalProcess
    IN  StreamAgentOutputs(AgentRun(run.agent, ctx, FilesAlone(s), process))

\* the log lines that come from scan s itself
OwnLogLines(s) ==
    {"Cloning repository: " \o requests[s].github_url,
     "Successfully cloned: " \o requests[s].github_url,
     "Cleaning up workspace: " \o WorkspacePath(s)}
        \cup {"Failed to clone repository: " \o GitCloneErrorText(failure) :
                  failure \in CloneFailures}
        \cup {TerminalMessage(runs[s][r].agent, runs[s][r].exc) : r \in DOMAIN runs[s]}

\* C13 (cross-scan isolation): with the tasks of two scans interleaved, the
\* settings' agent list is the installation's, each scan's progress list is the
\* one its own request gives, each call of an agent's run hands over what it
\* would in a scan running alone with the same tool outcome, and the scan's
\* findings, thoughts and logs are those of its own runs.
C13_CrossScanIsolation ==
    /\ enabled_agents = DefaultEnabledAgents
    /\ \A s \in DOMAIN scans :
           /\ [i \in DOMAIN scans[s].progress |-> scans[s].progress[i].agent]
                  = Filter(DetermineEnabledAgents(requests[s], DefaultEnabledAgents),
                           AgentFactories)
           /\ \A r \in DOMAIN runs[s] :
                  /\ runs[s][r].items = RunAlone(s, r).items
                  /\ runs[s][r].exc = RunAlone(s, r).exc
                  /\ runs[s][r].target \in {requests[s].target_url, requests[s].target,
                                            tasks[s].workspace_path}
           /\ scans[s].findings = YieldedBy(s, 1, Len(runs[s]))
           /\ \A i \in DOMAIN scans[s].thoughts : \E r \in DOMAIN runs[s] :
                  /\ runs[s][r].items # <<>>
                  /\ runs[s][r].items[1] = ThoughtItem(scans[s].thoughts[i])
           /\ \A i \in DOMAIN scans[s].logs : scans[s].logs[i] \in OwnLogLines(s)

\* two scans of the same repository are both in the middle of an agent's output,
\* each with findings of its own
C13_Witness ==
    /\ DOMAIN scans = TwoScanIds
    /\ \A s \in TwoScanIds :
           /\ Truthy(requests[s].github_url)
           /\ tasks[s].pc = "consume"
           /\ scans[s].findings # <<>>

\* C14 (request validation): a call of start_scan that raises changes nothing of
\* the orchestrator (no scan id, no row, no task), and a step that registers a
\* scan registers exactly one new id, for a request that supplies a source,
\* with its row persisted and its run task created.
C14_RequestValidation ==
    [][ /\ (rejected' /\ ~rejected) =>
               UNCHANGED <<enabled_agents, scans, tasks, requests, workspaces, db, fs,
                           published, runs>>
        /\ (DOMAIN scans' # DOMAIN scans) =>
               \E s \in ScanIds \ DOMAIN scans :
                   /\ DOMAIN scans' = DOMAIN scans \cup {s}
                   /\ \/ requests'[s].github_url # ""
                      \/ requests'[s].target_url # ""
                      \/ requests'[s].target # ""
                   /\ DOMAIN db' = DOMAIN db \cup {s}
                   /\ DOMAIN tasks' = DOMAIN tasks \cup {s}
                   /\ tasks'[s].pc = "start"
                   /\ \A t \in DOMAIN scans : scans'[t] = scans[t]
      ]_vars

\* a request without a source was refused and the orchestrator is as constructed
C14_Witness ==
    /\ rejected
    /\ scans = EmptyMap
    /\ tasks = EmptyMap
    /\ db = EmptyMap

\* C15 (eventual completion): under fair scheduling of the run task, every scan
\* accepted by start_scan eventually has its run task finished and every entry
\* of its progress list terminal.
C15_EventualCompletion ==
    \A s \in ScanIds :
        (s \in DOMAIN scans) ~>
            /\ TaskFinished(s)
            /\ \A i \in DOMAIN scans[s].progress :
                   scans[s].progress[i].status \in {COMPLETED, FAILED, SKIPPED}

\* the command each tool agent hands to the launcher
ToolCommand(agent) ==
    CASE agent = STATIC -> SemgrepBin
      [] agent = DEPENDENCY -> TrivyBin
      [] agent = SECRET -> GitleaksBin
      [] agent = FUZZER -> FfufBin
      [] agent = DAST -> ZapBaselineBin
      [] agent = TEMPLATE -> NucleiBin

\* C16 (tool launcher outcome): for every process an agent launched, run returns
\* the result only when the process exited with code 0 within the timeout; on a
\* non-zero exit it raises with the command, the captured stdout and stderr and
\* that exit code; on a timeout it raises with the captured output and a
\* non-zero exit code.
C16_ToolLauncherOutcome ==
    \A s \in DOMAIN runs : \A r \in {q \in DOMAIN runs[s] : runs[s][q].process # <<>>} :
        LET command == ToolCommand(runs[s][r].agent)
            process == runs[s][r].process[1]
            launched == ToolLauncherRun(command, process)
        IN  /\ ~launched.raised <=> (~process.timed_out /\ process.returncode = 0)
            /\ launched.result.command = command
            /\ launched.result.stdout = Stdout(command, process.out)
            /\ launched.result.stderr = process.err
            /\ ~process.timed_out => launched.result.exit_code = process.returncode
            /\ process.timed_out => launched.result.exit_code # 0

\* an agent launched a tool that ran into the timeout, and the agent's run raised
C16_Witness ==
    \E s \in DOMAIN runs : \E r \in DOMAIN runs[s] :
        /\ runs[s][r].process # <<>>
        /\ runs[s][r].process[1].timed_out
        /\ runs[s][r].exc # ""

\* C17 (explicit agent list): when the request carries a non-empty explicit agent
\* list, the progress list holds exactly the listed agents the installation
\* recognizes, no entry for any other name, and at most one entry per agent.
C17_ExplicitAgentList ==
    \A s \in DOMAIN scans :
        requests[s].enabled_agents # <<>> =>
            LET progress == scans[s].progress
                recognized == Range(DefaultEnabledAgents) \cap AgentFactories
            IN  /\ {progress[i].agent : i \in DOMAIN progress}
                       = Range(requests[s].enabled_agents) \cap recognized
                /\ \A i, j \in DOMAIN progress :
                       progress[i].agent = progress[j].agent => i = j

\* C18 (per-agent state machine): every progress entry is PENDING when start_scan
\* returns, and every later change of an entry's status is PENDING -> RUNNING,
\* RUNNING -> COMPLETED, RUNNING -> FAILED or RUNNING -> SKIPPED, so that no
\* entry is terminal without having been RUNNING and a terminal entry stays as
\* it is.
C18_AgentStateMachine ==
    [][ \A s \in DOMAIN scans' :
            IF s \notin DOMAIN scans
            THEN \A i \in DOMAIN scans'[s].progress :
                     scans'[s].progress[i].status = PENDING
            ELSE /\ DOMAIN scans'[s].progress = DOMAIN scans[s].progress
                 /\ \A i \in DOMAIN scans[s].progress :
                        LET before == scans[s].progress[i].status
                            after == scans'[s].progress[i].status
                        IN  before # after =>
                                <<before, after>> \in
                                    {<<PENDING, RUNNING>>, <<RUNNING, COMPLETED>>,
                                     <<RUNNING, FAILED>>, <<RUNNING, SKIPPED>>}
      ]_vars

TerminalStatuses == {COMPLETED, FAILED, SKIPPED}

\* C19 (uniform terminal step): after every step, every progress entry that is
\* COMPLETED, FAILED or SKIPPED has ended_at set and percent_complete 100, and
\* the step that made it terminal appended one log line, persisted the whole
\* snapshot and published it.
C19_UniformTerminalStep ==
    [][ \A s \in DOMAIN scans : \A i \in DOMAIN scans[s].progress :
            LET before == scans[s].progress[i]
                after == scans'[s].progress[i]
            IN  after.status \in TerminalStatuses =>
                    /\ after.ended_at
                    /\ after.percent_complete = 100
                    /\ before.status \notin TerminalStatuses =>
                           /\ Len(scans'[s].logs) = Len(scans[s].logs) + 1
                           /\ s \in DOMAIN db'
                           /\ db'[s] = ScanRows(scans'[s])
                           /\ s \in DOMAIN published'
                           /\ published'[s] = scans'[s]
      ]_vars

\* C20 (strictly sequential execution): at most one progress entry of a scan is
\* RUNNING, and while the entry at position i + 1 is RUNNING, or has been, every
\* entry before it is terminal.
C20_StrictlySequential ==
    \A s \in DOMAIN scans :
        /\ Cardinality({i \in DOMAIN scans[s].progress :
                            scans[s].progress[i].status = RUNNING}) <= 1
        /\ \A i \in DOMAIN scans[s].progress :
               scans[s].progress[i].started_at =>
                   \A j \in 1..(i - 1) : scans[s].progress[j].status \in TerminalStatuses

\* the second agent of a scan is RUNNING, the first one has ended
C20_Witness ==
    \E s \in DOMAIN scans :
        /\ Len(scans[s].progress) >= 2
        /\ scans[s].progress[2].status = RUNNING
        /\ scans[s].progress[1].status \in TerminalStatuses
        /\ scans[s].progress[1].ended_at

\* C21 (fixed declared order): the agents of every scan are executed in the one
\* order in which a scan without an explicit list executes them, whatever the
\* request, and adaptive, threat and report run after every scanner agent of
\* the scan.
C21_FixedDeclaredOrder ==
    LET declared == DetermineEnabledAgents(
                        [github_url |-> "", target_url |-> "", target |-> "/srv/app",
                         enabled_agents |-> <<>>], DefaultEnabledAgents)
        place(agent) == CHOOSE k \in DOMAIN declared : declared[k] = agent
    IN  \A s \in DOMAIN runs : \A r1, r2 \in DOMAIN runs[s] :
            (r1 < r2 /\ runs[s][r1].agent # runs[s][r2].agent) =>
                /\ place(runs[s][r1].agent) < place(runs[s][r2].agent)
                /\ runs[s][r1].agent \in MetaAgents => runs[s][r2].agent \in MetaAgents

\* C22 (per-agent target resolution): static, dependency and secret are invoked
\* with the workspace path when a repository was cloned, dast, fuzzer and
\* template with the target URL when one was supplied, and every other
\* invocation with the default target of the context as it was created,
\* whatever agents ran before.
C22_PerAgentTarget ==
    \A s \in DOMAIN runs : \A r \in DOMAIN runs[s] :
        LET agent == runs[s][r].agent
            request == requests[s]
            workspace_path == tasks[s].workspace_path
            default == NewAgentContext(s, request, workspace_path, llm_client).target
        IN  runs[s][r].target =
                IF workspace_path # "" /\ agent \in {STATIC, DEPENDENCY, SECRET}
                THEN workspace_path
                ELSE IF request.target_url # "" /\ agent \in {DAST, FUZZER, TEMPLATE}
                THEN request.target_url
                ELSE default

\* C23 (clone failure is visible to observers): once the run has ended after a
\* clone failure, the last snapshot published for the scan shows every agent
\* FAILED with the failure reason in its message.
C23_CloneFailurePublished ==
    \A s \in DOMAIN scans :
        (CloneFailed(s) /\ TaskFinished(s)) =>
            /\ s \in DOMAIN published
            /\ \A i \in DOMAIN published[s].progress :
                   /\ published[s].progress[i].status = FAILED
                   /\ published[s].progress[i].message = "Repository clone failed"

\* C24 (publish on every change): a step of the run that changes the status of
\* an agent, or takes a thought or a finding from an agent, ends with the
\* snapshot that holds this change published, before the run goes on.
C24_PublishOnEveryChange ==
    [][ \A s \in DOMAIN scans :
            LET statuses(status) ==
                    [i \in DOMAIN status.progress |-> status.progress[i].status]
            IN  (\/ statuses(scans'[s]) # statuses(scans[s])
                 \/ scans'[s].findings # scans[s].findings
                 \/ scans'[s].thoughts # scans[s].thoughts) =>
                    /\ s \in DOMAIN published'
                    /\ statuses(published'[s]) = statuses(scans'[s])
                    /\ published'[s].findings = scans'[s].findings
                    /\ published'[s].thoughts = scans'[s].thoughts
      ]_vars

\* C25 (bounded persistence lag): for every agent whose entry is terminal in
\* memory, the persisted snapshot of the scan records the same status and holds
\* every finding and every thought that agent produced.
C25_BoundedPersistenceLag ==
    \A s \in DOMAIN scans : \A i \in DOMAIN scans[s].progress :
        scans[s].progress[i].status \in TerminalStatuses =>
            /\ s \in DOMAIN db
            /\ db[s].progress[i].status = scans[s].progress[i].status
            /\ \A r \in {q \in DOMAIN runs[s] : runs[s][q].pos = i} :
                   /\ \A k \in DOMAIN runs[s][r].yielded :
                          \E row \in Range(db[s].findings) :
                              row.id = FindingRowId(s, runs[s][r].yielded[k].id)
                   /\ \A k \in DOMAIN runs[s][r].items :
                          runs[s][r].items[k].kind = "thought" =>
                              runs[s][r].items[k].value \in Range(db[s].thoughts)

\* C26 (append-only ordered accumulation): every step leaves the findings and
\* the thoughts of a scan as they were with zero or more items appended, and
\* when the run has ended the findings are the findings each call of an agent's
\* run handed over, call after call in execution order, those handed over
\* before the agent raised included.
C26_AppendOnlyAccumulation ==
    [][ \A s \in DOMAIN scans :
            LET IsPrefix(a, b) == Len(a) <= Len(b) /\ SubSeq(b, 1, Len(a)) = a
                handed(run) ==
                    LET sel == SelectSeq(run.items, LAMBDA item : item.kind = "finding")
                    IN  [k \in 1..Len(sel) |-> sel[k].value]
                RECURSIVE all_handed(_, _)
                all_handed(calls, n) ==
                    IF n = 0 THEN <<>> ELSE all_handed(calls, n - 1) \o handed(calls[n])
            IN  /\ IsPrefix(scans[s].findings, scans'[s].findings)
                /\ IsPrefix(scans[s].thoughts, scans'[s].thoughts)
                /\ tasks'[s].pc \in {"done", "raised"} =>
                       scans'[s].findings = all_handed(runs'[s], Len(runs'[s]))
      ]_vars

\* the run has ended with the findings of two agents and an agent that raised
\* between them (no registered agent hands over a finding and then raises: the
\* scanner agents return their findings at once, the meta-agents catch)
C26_Witness ==
    \E s \in DOMAIN scans :
        /\ TaskFinished(s)
        /\ \E r1, r2, r3 \in DOMAIN runs[s] :
               /\ r1 < r2 /\ r2 < r3
               /\ runs[s][r1].yielded # <<>>
               /\ runs[s][r2].exc # ""
               /\ runs[s][r3].yielded # <<>>

\* C27 (lazy and batch agents are equivalent): whatever way an agent's run hands
\* over a sequence of items (yielded one at a time, returned as a list, as one
\* item or as None), the orchestrator is handed the same items as from the
\* async generator, and once the slot has ended the scan holds exactly the
\* findings and the thoughts of the sequence, in order, with the agent
\* COMPLETED; None contributes nothing.
C27_LazyBatchEquivalent ==
    \A s \in DOMAIN runs : \A r \in DOMAIN runs[s] :
        LET run == runs[s][r]
            of_kind(kind) ==
                LET sel == SelectSeq(run.given, LAMBDA item : item.kind = kind)
                IN  [k \in 1..Len(sel) |-> sel[k].value]
        IN  /\ run.items = StreamAgentOutputs(
                               [shape |-> "generator", items |-> run.given, exc |-> ""]).items
            /\ scans[s].progress[run.pos].status \in TerminalStatuses =>
                   /\ scans[s].progress[run.pos].status = COMPLETED
                   /\ scans[s].findings = of_kind("finding")
                   /\ scans[s].thoughts = of_kind("thought")

\* an agent returned a list with None and a finding in it, its slot has ended
C27_Witness ==
    \E s \in DOMAIN runs : \E r \in DOMAIN runs[s] :
        /\ runs[s][r].shape = "coroutine"
        /\ \E k \in DOMAIN runs[s][r].given : runs[s][r].given[k].kind = "none"
        /\ scans[s].progress[runs[s][r].pos].status = COMPLETED
        /\ scans[s].findings # <<>>

\* C28 (invalid target): static, dependency and secret invoked with a target
\* that is not an existing path, and fuzzer, dast and template invoked with a
\* target that is not an HTTP(S) URL, raise before any tool is launched, and the
\* orchestrator records the agent FAILED with the error text and goes on to the
\* next agent.
C28_InvalidTarget ==
    \A s \in DOMAIN runs : \A r \in DOMAIN runs[s] :
        LET run == runs[s][r]
            HasPrefix(t, prefix) ==
                Len(t) >= Len(prefix) /\ SubSeq(t, 1, Len(prefix)) = prefix
            invalid ==
                \/ /\ run.agent \in {STATIC, DEPENDENCY, SECRET}
                   /\ run.target \notin InitialPaths \cup {WorkspacePath(s)}
                \/ /\ run.agent \in {FUZZER, DAST, TEMPLATE}
                   /\ ~HasPrefix(run.target, "http://")
                   /\ ~HasPrefix(run.target, "https://")
            entry == scans[s].progress[run.pos]
        IN  invalid =>
                /\ run.process = <<>>
                /\ run.exc # ""
                /\ run.items = <<>>
                /\ entry.status \in TerminalStatuses =>
                       /\ entry.status = FAILED
                       /\ entry.message = run.exc
                       /\ tasks[s].idx > run.pos

\* C29 (malformed output degrades to no findings): when an agent's tool exits
\* with code 0 within the timeout and its output is empty or no JSON, the
\* agent's run returns no finding without raising, and its slot ends COMPLETED.
C29_MalformedOutputDegrades ==
    \A s \in DOMAIN runs : \A r \in DOMAIN runs[s] :
        LET run == runs[s][r]
        IN  (/\ run.process # <<>>
             /\ ~run.process[1].timed_out
             /\ run.process[1].returncode = 0
             /\ run.process[1].out \in {NoOutput, Garbage}) =>
                /\ run.exc = ""
                /\ run.items = <<>>
                /\ scans[s].progress[run.pos].status \in {RUNNING, COMPLETED}

\* C30 (finding identity): no two findings of one scan's findings list have the
\* same id, so the rows the store builds for the scan, keyed by scan id plus
\* finding id, never collide.
C30_FindingIdentity ==
    \A s \in DOMAIN scans :
        LET rows == FindingRows(scans[s])
        IN  /\ \A i, j \in DOMAIN scans[s].findings :
                   scans[s].findings[i].id = scans[s].findings[j].id => i = j
            /\ \A i, j \in DOMAIN rows : rows[i].id = rows[j].id => i = j

\* C31 (thoughts are observational): every run of a meta-agent hands over
\* exactly one thought, its own and first, and does not raise; and every call of
\* an agent's run, made again with the same context and tool outcome but the
\* other outcome of the think step's LLM call, hands over the same findings at
\* the same places and ends the same way, so that the slot's status and the
\* findings are the same.
C31_ThoughtsObservational ==
    \A s \in DOMAIN runs : \A r \in DOMAIN runs[s] :
        LET run == runs[s][r]
            other == IF llm_client = "think_raises" THEN "ok" ELSE "think_raises"
            ctx == [scan_id |-> s, target |-> run.target,
                    previous_findings |-> run.previous_findings, llm_client |-> other]
            process == IF run.process # <<>> THEN run.process[1] ELSE NominalProcess
            again == StreamAgentOutputs(AgentRun(run.agent, ctx, FilesAlone(s), process))
            thoughts == {k \in DOMAIN run.items : run.items[k].kind = "thought"}
        IN  /\ run.agent \in MetaAgents =>
                   /\ thoughts = {1}
                   /\ run.items[1].value.agent = run.agent
                   /\ run.exc = ""
            /\ again.exc = run.exc
            /\ DOMAIN again.items = DOMAIN run.items
            /\ \A k \in DOMAIN run.items :
                   IF k \in thoughts THEN again.items[k].kind = "thought"
                   ELSE again.items[k] = run.items[k]

\* the LLM raised in the think step of the threat agent, whose run went on to
\* hand over its finding, and made again with an LLM that answers it hands over
\* another thought
C31_Witness ==
    \E s \in DOMAIN runs : \E r \in DOMAIN runs[s] :
        /\ llm_client = "think_raises"
        /\ runs[s][r].agent = THREAT
        /\ runs[s][r].previous_findings # <<>>
        /\ runs[s][r].items[1].value.thought = "Thought generation failed: LLM error"
        /\ runs[s][r].yielded # <<>>
        /\ Think(THREAT, [llm_client |-> "ok"], "").thought # runs[s][r].items[1].value.thought

\* C32: a broadcast for scan id S tries each websocket registered under S
\* when it started, once, whether or not an earlier send failed, and no
\* websocket registered only under another id or disconnected before it
\* started; it returns without raising.
C32_SinkFanOut ==
    \A b \in DOMAIN broadcasts :
        LET call == broadcasts[b]
            Under(s) == IF s \in DOMAIN call.connections_at_start
                        THEN Range(call.connections_at_start[s])
                        ELSE {}
            registered == Under(call.scan_id)
            elsewhere == UNION {Under(s) : s \in TwoScanIds \ {call.scan_id}}
            attempted == {call.sent[i].websocket : i \in DOMAIN call.sent}
        IN  /\ attempted \subseteq registered
            /\ attempted \cap (elsewhere \ registered) = {}
            /\ attempted \cap call.closed_at_start = {}
            /\ Len(call.sent) = Cardinality(attempted)
            /\ ~call.raised
            /\ registered = attempted \cup Range(call.conns)
            /\ call.returned => attempted = registered

\* A broadcast for s1 has returned: its first send failed, its second went
\* through, and neither the websocket under s2 nor the one that had
\* disconnected from s1 got anything.
C32_Witness ==
    \E b \in DOMAIN broadcasts :
        LET call == broadcasts[b]
        IN  /\ call.scan_id = "s1"
            /\ call.returned
            /\ Len(call.sent) = 2
            /\ call.sent[1].failed
            /\ ~call.sent[2].failed
            /\ "s2" \in DOMAIN call.connections_at_start
            /\ \E websocket \in call.closed_at_start : PathScanId[websocket] = "s1"

\* C33 (final persisted state): once the run task of a scan has finished, the
\* scan loaded from the database has the progress statuses, the findings, the
\* thoughts and the log lines of the status get_status returns.
C33_FinalPersistedState ==
    \A s \in DOMAIN tasks :
        TaskFinished(s) =>
            /\ Load(db, s) # <<>>
            /\ GetStatus(s) # <<>>
            /\ LET loaded == Load(db, s)[1]
                   status == GetStatus(s)[1]
               IN  /\ Len(loaded.progress) = Len(status.progress)
                   /\ \A i \in DOMAIN status.progress :
                          loaded.progress[i].status = status.progress[i].status
                   /\ loaded.findings = status.findings
                   /\ loaded.thoughts = status.thoughts
                   /\ loaded.logs = status.logs

\* C34 (start_scan leaves the configured agent list alone): no step, of a call
\* of start_scan that raises or registers a scan or of a run task, changes
\* settings.enabled_agents, and the progress list of a scan being registered
\* is built from the configured list, whatever an earlier call replaced it
\* with.
C34_SettingsUnchanged ==
    [][ /\ enabled_agents' = enabled_agents
        /\ \A s \in DOMAIN scans' \ DOMAIN scans :
               [i \in DOMAIN scans'[s].progress |-> scans'[s].progress[i].agent]
                   = Filter(DetermineEnabledAgents(requests'[s], DefaultEnabledAgents),
                            AgentFactories)
      ]_vars

\* Two scans are registered and a run task has begun: the request of one made
\* start_scan replace the list with one that lacks an agent the explicit list
\* of the other names, and that agent is in the other's progress list.
C34_Witness ==
    /\ DOMAIN scans = TwoScanIds
    /\ \E s \in TwoScanIds : tasks[s].pc # "start"
    /\ \E s \in TwoScanIds, o \in TwoScanIds :
           /\ s # o
           /\ requests[o].enabled_agents # <<>>
           /\ \E i \in DOMAIN scans[o].progress :
                  scans[o].progress[i].agent
                      \notin Range(DetermineEnabledAgents(requests[s], enabled_agents))

====
